---- MODULE Spec2Model ----
(***************************************************************************)
(* A model of the metadata codec of metadata-embed-and-report-mcp:         *)
(* XMPProcessor (src/src/core/xmp-processor.ts) and the category organizer *)
(* of CreateMetadataReportTool (src/src/tools/create-metadata-report.ts).  *)
(*                                                                         *)
(* A JavaScript string is a sequence of UTF-16 code units and a Uint8Array *)
(* a sequence of bytes; both are sequences of integers here.  Offsets of   *)
(* the source are 0-based, TLA+ sequences are 1-based: At and Slice take   *)
(* the source's 0-based offsets.                                           *)
(***************************************************************************)
EXTENDS Integers, Sequences, FiniteSets, TLC

VARIABLES
    pc,             \* the operation that acted last
    imageBuffer,    \* the image bytes held in storage / handed to the codec
    xmpPacket,      \* the packet text handed to the last embedXMPInImage
    embedResult,    \* outcome of the last embedXMPInImage
    extractResult,  \* outcome of the last extractXMPFromImage
    originalImage,  \* ghost: the bytes the run started from
    embedded,       \* ghost: the packets embedded into imageBuffer, newest first
    fieldKey,       \* the key handed to beautifyFieldName
    displayName,    \* beautifyFieldName(fieldKey)
    redisplayName,  \* beautifyFieldName(displayName)
    containerArgs,  \* the arguments of the last getSemanticContainerType
    containerType,  \* its result
    metadata,       \* the field map handed to organizeMetadataByCategories
    schemaType,     \* the schema variant handed to it
    organized,      \* its result
    tree,           \* the metadata tree handed to createXMPPacket
    packetSchema,   \* the schema variant handed to it
    xmpInfo,        \* its outcome: the packet text, or that it threw
    parsed,         \* parseXMPContent(packet)
    alteredPacket,  \* the packet with its tagged elements edited
    parsedAltered,  \* parseXMPContent(alteredPacket)
    originalPath,   \* the output path handed to updateOutputPath
    converted,      \* whether the image was converted to JPEG
    finalPath,      \* updateOutputPath(originalPath, converted)
    detectInput,    \* the metadata handed to the report tool's detectSchemaType
    detectedSchema, \* its result
    ledgerText,     \* a Ledger string with commas at its field boundaries
    damagedLedger,  \* the string with a period at one of the boundaries
    parsedDamaged,  \* parseXMPContent of a packet holding the damaged string
    extractedDamaged,\* extractRawJSONFromMetadata of metadata holding it
    stampTree,      \* the metadata tree embedded twice
    stampSchema,    \* the schema variant of both embeddings
    now,            \* the number of the instant the clock shows
    firstInfo,      \* the outcome of the first createXMPPacket
    secondInfo,     \* the outcome of the second createXMPPacket
    readTree,       \* the metadata tree the embed tool is given
    readSchema,     \* the schema variant it is given
    readImage,      \* the image, before and after the embedding
    readResult,     \* what extractXMPFromImage returns for the image
    scanBuffer,     \* the byte stream extractXMPFromJPEG scans
    scanIndex,      \* the loop index i of the scan
    scanResult,     \* what the scan returns
    brokenPacket,   \* a packet whose Raw_JSON element is missing or undecodable
    brokenParsed,   \* what parseXMPContent returns for that packet
    packetOptions,  \* the options createXMPPacket is called with
    packetInfo,     \* the XMPPacketInfo it returns
    labelKey,       \* a field key that is labelled in the packet and in the report
    packetLabel,    \* what XMPProcessor.beautifyFieldName returns for it
    reportLabel,    \* what the report tool's beautifyFieldName returns for it
    reportParams,   \* the request CreateMetadataReportTool.execute is called with
    existsResult,   \* what imageExists returned
    downloaded,     \* the buffer downloadImageToBuffer returned
    xmpResult,      \* what extractXMPFromImage returned for it
    outputPath,     \* the path the report is uploaded to
    uploadCalls,    \* how often uploadImageFromBuffer was called
    stored,         \* the paths the storage holds a report at
    response,       \* how the promise of execute settled
    embedSource,    \* source_path of the request to EmbedMetadataTool.execute
    embedOutput,    \* output_path of the request
    embedConverted,  \* whether the converter turned the image into a JPEG
    uploadedTo,     \* the paths the processed image was uploaded to with upsert
    plainText,      \* a string handed to escapeXML
    escapedText,    \* what escapeXML made of it
    restoredText,   \* what unescapeXML made of the escaped text
    ledgerTree,     \* the tree a packet is written from for the report
    ledgerSchema,   \* its schema type
    reportParsed,   \* the parsed metadata of the packet
    enhanced        \* what enhanceMetadataWithAllFields made of it

codecVars == <<imageBuffer, xmpPacket, embedResult, extractResult, originalImage, embedded>>

canonVars == <<fieldKey, displayName, redisplayName, containerArgs, containerType>>

reportVars == <<metadata, schemaType, organized>>

ledgerVars == <<tree, packetSchema, xmpInfo, parsed, alteredPacket, parsedAltered>>

pathVars == <<originalPath, converted, finalPath>>

detectVars == <<detectInput, detectedSchema>>

repairVars == <<ledgerText, damagedLedger, parsedDamaged, extractedDamaged>>

clockVars == <<stampTree, stampSchema, now, firstInfo, secondInfo>>

readVars == <<readTree, readSchema, readImage, readResult>>

scanVars == <<scanBuffer, scanIndex, scanResult>>

fallbackVars == <<brokenPacket, brokenParsed>>

accountVars == <<packetOptions, packetInfo>>

labelVars == <<labelKey, packetLabel, reportLabel>>

execVars == <<reportParams, existsResult, downloaded, xmpResult, outputPath, uploadCalls, stored, response>>

embedVars == <<embedSource, embedOutput, embedConverted, uploadedTo>>

escapeVars == <<plainText, escapedText, restoredText>>

enhanceVars == <<ledgerTree, ledgerSchema, reportParsed, enhanced>>

toolVars == <<pathVars, detectVars, repairVars, clockVars, readVars, scanVars, fallbackVars, accountVars, labelVars, execVars, embedVars, escapeVars, enhanceVars>>

vars == <<pc, codecVars, canonVars, reportVars, ledgerVars, toolVars>>

(***************************************************************************)
(* Strings                                                                 *)
(***************************************************************************)
AsciiLow == " !\"#$%&'()*+,-./0123456789:;<=>?@ABCDEFGHIJKLMNOPQRSTUVWXYZ[\\]^_"

AsciiHigh == "abcdefghijklmnopqrstuvwxyz{|}~"

\* the code unit of every one-character string of the two tables
CharTable ==
    [c \in { SubSeq(AsciiLow, i, i) : i \in 1..Len(AsciiLow) }
               \cup { SubSeq(AsciiHigh, i, i) : i \in 1..Len(AsciiHigh) } |->
        IF \E i \in 1..Len(AsciiLow) : SubSeq(AsciiLow, i, i) = c
        THEN 31 + (CHOOSE i \in 1..Len(AsciiLow) : SubSeq(AsciiLow, i, i) = c)
        ELSE 96 + (CHOOSE i \in 1..Len(AsciiHigh) : SubSeq(AsciiHigh, i, i) = c)] @@ <<>>

\* charCodeAt of a one-character string
CharCode(c) == CharTable[c]

\* a function on 1..n as the sequence it is
Array(f) == <<>> \o f

\* the code units of a string literal
Codes(s) == Array([i \in 1..Len(s) |-> CharCode(SubSeq(s, i, i))])

Min(a, b) == IF a < b THEN a ELSE b

Max(a, b) == IF a > b THEN a ELSE b

\* the value of an out-of-range element read (undefined)
Undefined == -1

\* arr[k], k a 0-based offset
At(arr, k) == IF k >= 0 /\ k < Len(arr) THEN arr[k + 1] ELSE Undefined

\* ToInt32 of an element read
ToInt(b) == IF b = Undefined THEN 0 ELSE b

\* a relative slice index resolved against a length
RelIndex(k, len) == IF k < 0 THEN Max(len + k, 0) ELSE Min(k, len)

\* arr.slice(from, to), 0-based and end-exclusive
Slice(arr, from, to) ==
    LET a == RelIndex(from, Len(arr))
        b == RelIndex(to, Len(arr))
    IN  IF b > a THEN SubSeq(arr, a + 1, b) ELSE <<>>

\* new Uint8Array(n)
Zeros(n) == Array([i \in 1..n |-> 0])

(***************************************************************************)
(* TextEncoder / TextDecoder (UTF-8)                                       *)
(***************************************************************************)
IsHighSurrogate(u) == u >= 55296 /\ u <= 56319

IsLowSurrogate(u) == u >= 56320 /\ u <= 57343

ReplacementChar == <<65533>>

\* UTF-8 bytes of one scalar value
EncodeScalar(cp) ==
    IF cp < 128 THEN <<cp>>
    ELSE IF cp < 2048 THEN <<192 + (cp \div 64), 128 + (cp % 64)>>
    ELSE IF cp < 65536
    THEN <<224 + (cp \div 4096), 128 + ((cp \div 64) % 64), 128 + (cp % 64)>>
    ELSE <<240 + (cp \div 262144), 128 + ((cp \div 4096) % 64),
           128 + ((cp \div 64) % 64), 128 + (cp % 64)>>

RECURSIVE TextEncode(_)
\* new TextEncoder().encode(text): a surrogate pair is one scalar value, a lone
\* surrogate is encoded as U+FFFD.  The text is cut in halves, never inside a pair.
TextEncode(text) ==
    IF Len(text) = 0 THEN <<>>
    ELSE IF Len(text) = 1
    THEN IF IsHighSurrogate(text[1]) \/ IsLowSurrogate(text[1])
         THEN EncodeScalar(ReplacementChar[1])
         ELSE EncodeScalar(text[1])
    ELSE IF Len(text) = 2 /\ IsHighSurrogate(text[1]) /\ IsLowSurrogate(text[2])
    THEN EncodeScalar(65536 + (text[1] - 55296) * 1024 + (text[2] - 56320))
    ELSE LET mid == Len(text) \div 2
             cut == IF Len(text) > 2 /\ IsHighSurrogate(text[mid]) /\ IsLowSurrogate(text[mid + 1])
                    THEN mid + 1 ELSE mid
         IN  TextEncode(SubSeq(text, 1, cut)) \o TextEncode(SubSeq(text, cut + 1, Len(text)))

IsContinuation(b) == b >= 128 /\ b <= 191

\* continuation bytes a lead byte asks for
BytesNeeded(b) ==
    IF b >= 194 /\ b <= 223 THEN 1
    ELSE IF b >= 224 /\ b <= 239 THEN 2
    ELSE IF b >= 240 /\ b <= 244 THEN 3
    ELSE 0

\* the range allowed for the first continuation byte after lead b
LowerBoundary(b) == IF b = 224 THEN 160 ELSE IF b = 240 THEN 144 ELSE 128

UpperBoundary(b) == IF b = 237 THEN 159 ELSE IF b = 244 THEN 143 ELSE 191

\* code units of a scalar value
UnitsOf(cp) ==
    IF cp < 65536 THEN <<cp>>
    ELSE <<55296 + ((cp - 65536) \div 1024), 56320 + ((cp - 65536) % 1024)>>

\* one step of the UTF-8 decoder at the head of bytes: the code units it emits and
\* the bytes it consumes (an ill-formed sequence emits U+FFFD for its maximal prefix)
DecodeOne(bytes) ==
    LET b == bytes[1]
        need == BytesNeeded(b)
        ok1 == Len(bytes) >= 2 /\ bytes[2] >= LowerBoundary(b) /\ bytes[2] <= UpperBoundary(b)
        ok2 == ok1 /\ Len(bytes) >= 3 /\ IsContinuation(bytes[3])
        ok3 == ok2 /\ Len(bytes) >= 4 /\ IsContinuation(bytes[4])
        good == IF ok3 THEN 3 ELSE IF ok2 THEN 2 ELSE IF ok1 THEN 1 ELSE 0
    IN  IF b < 128 THEN [units |-> <<b>>, used |-> 1]
        ELSE IF need = 0 THEN [units |-> ReplacementChar, used |-> 1]
        ELSE IF good < need THEN [units |-> ReplacementChar, used |-> 1 + good]
        ELSE IF need = 1
        THEN [units |-> UnitsOf((b - 192) * 64 + (bytes[2] - 128)), used |-> 2]
        ELSE IF need = 2
        THEN [units |-> UnitsOf((b - 224) * 4096 + (bytes[2] - 128) * 64 + (bytes[3] - 128)),
              used |-> 3]
        ELSE [units |-> UnitsOf((b - 240) * 262144 + (bytes[2] - 128) * 4096
                                + (bytes[3] - 128) * 64 + (bytes[4] - 128)),
              used |-> 4]

RECURSIVE Utf8Decode(_)
\* the decoder run over bytes.  A long input is cut where the decoder is between
\* characters: before a byte that is no continuation byte, or after three
\* continuation bytes in a row.
Utf8Decode(bytes) ==
    IF Len(bytes) = 0 THEN <<>>
    ELSE IF Len(bytes) <= 8
    THEN LET d == DecodeOne(bytes)
         IN  d.units \o Utf8Decode(SubSeq(bytes, d.used + 1, Len(bytes)))
    ELSE LET mid == Len(bytes) \div 2
             cut == IF ~IsContinuation(bytes[mid + 1]) THEN mid
                    ELSE IF ~IsContinuation(bytes[mid + 2]) THEN mid + 1
                    ELSE IF ~IsContinuation(bytes[mid + 3]) THEN mid + 2
                    ELSE mid + 3
         IN  Utf8Decode(SubSeq(bytes, 1, cut)) \o Utf8Decode(SubSeq(bytes, cut + 1, Len(bytes)))

\* new TextDecoder().decode(bytes): not fatal, and a leading byte order mark is dropped
TextDecode(bytes) ==
    LET units == Utf8Decode(bytes)
    IN  IF Len(units) >= 1 /\ units[1] = 65279 THEN Tail(units) ELSE units

\* Buffer.byteLength(text, 'utf8')
ByteLength(text) == Len(TextEncode(text))

(***************************************************************************)
(* Binary embedder / extractor                                             *)
(***************************************************************************)
\* the value null
Null == [isNull |-> TRUE, text |-> <<>>]

NotNull(text) == [isNull |-> FALSE, text |-> text]

\* the literal the embedder starts from: the APP1 marker, a length placeholder and
\* the 29 signature bytes
app1HeaderLiteral ==
    <<255, 225,
      0, 0,
      104, 116, 116, 112, 58, 47, 47, 110, 115, 46,
      97, 100, 111, 98, 101, 46, 99, 111, 109, 47,
      120, 97, 112, 47, 49, 46, 48, 47, 0>>

\* the signature the extractor compares with, 'http://ns.adobe.com/xap/1.0/\0'
xmpSignature == Codes("http://ns.adobe.com/xap/1.0/") \o <<0>>

\* a variant: only the first byte of the start-of-image marker is compared
isJPEG_firstByteOnly(buffer) == Len(buffer) >= 1 /\ At(buffer, 0) = 255

isJPEG(buffer) == Len(buffer) >= 2 /\ At(buffer, 0) = 255 /\ At(buffer, 1) = 216

\* a variant: the segment is appended after the original stream
embedXMPInJPEG_appended(buffer, packet) ==
    LET xmpBytes == TextEncode(packet)
        totalLength == Len(app1HeaderLiteral) + Len(xmpBytes) - 2
        app1Header == [app1HeaderLiteral EXCEPT ![3] = (totalLength \div 256) % 256,
                                                ![4] = totalLength % 256]
    IN  buffer \o app1Header \o xmpBytes

embedXMPInJPEG(buffer, packet) ==
    LET xmpBytes == TextEncode(packet)
        totalLength == Len(app1HeaderLiteral) + Len(xmpBytes) - 2
        \* a Uint8Array element keeps the low 8 bits
        app1Header == [app1HeaderLiteral EXCEPT ![3] = (totalLength \div 256) % 256,
                                                ![4] = totalLength % 256]
        soi == Slice(buffer, 0, 2)
        rest == Slice(buffer, 2, Len(buffer))
        headerEnd == 2 + Len(app1Header)
        xmpEnd == 2 + Len(app1Header) + Len(xmpBytes)
    IN  \* result.set(soi, 0); result.set(app1Header, 2);
        \* result.set(xmpBytes, 2 + app1Header.length); result.set(rest, xmpEnd)
        Array([i \in 1..(Len(buffer) + Len(app1Header) + Len(xmpBytes)) |->
            IF i > xmpEnd /\ i <= xmpEnd + Len(rest) THEN rest[i - xmpEnd]
            ELSE IF i > headerEnd /\ i <= headerEnd + Len(xmpBytes) THEN xmpBytes[i - headerEnd]
            ELSE IF i > 2 /\ i <= 2 + Len(app1Header) THEN app1Header[i - 2]
            ELSE IF i > 0 /\ i <= Len(soi) THEN soi[i]
            ELSE 0])

\* the outcome of embedXMPInImage: it returns value or throws Error(message);
\* buffer is the caller's buffer as the call leaves it
embedXMPInImage(buffer, packet) ==
    IF isJPEG(buffer)
    THEN [threw |-> FALSE, value |-> embedXMPInJPEG(buffer, packet), message |-> "",
          buffer |-> buffer]
    ELSE [threw |-> TRUE, value |-> <<>>,
          message |-> "XMP embedding failed: Image must be JPEG format for XMP embedding. Use ImageConverter to convert first.",
          buffer |-> buffer]

RECURSIVE scanFrom(_, _)
\* the for loop of extractXMPFromJPEG, entered with loop index i
scanFrom(buffer, i) ==
    IF ~(i < Len(buffer) - 30) THEN Null
    ELSE IF At(buffer, i) = 255 /\ At(buffer, i + 1) = 225
    THEN LET segmentLength == ToInt(At(buffer, i + 2)) * 256 + ToInt(At(buffer, i + 3))
             signatureStart == i + 4
             isXMP == \A j \in 0..(Len(xmpSignature) - 1) :
                         At(buffer, signatureStart + j) = xmpSignature[j + 1]
             xmpStart == signatureStart + Len(xmpSignature)
             xmpLength == segmentLength - Len(xmpSignature) - 2
         IN  IF isXMP
             THEN NotNull(TextDecode(Slice(buffer, xmpStart, xmpStart + xmpLength)))
             ELSE scanFrom(buffer, (i + segmentLength + 2) + 1)
    ELSE scanFrom(buffer, i + 1)

RECURSIVE scanFrom_anyApp1(_, _)
\* a variant: the signature of an APP1 segment is not compared
scanFrom_anyApp1(buffer, i) ==
    IF ~(i < Len(buffer) - 30) THEN Null
    ELSE IF At(buffer, i) = 255 /\ At(buffer, i + 1) = 225
    THEN LET segmentLength == ToInt(At(buffer, i + 2)) * 256 + ToInt(At(buffer, i + 3))
             xmpStart == i + 4 + Len(xmpSignature)
             xmpLength == segmentLength - Len(xmpSignature) - 2
         IN  NotNull(TextDecode(Slice(buffer, xmpStart, xmpStart + xmpLength)))
    ELSE scanFrom_anyApp1(buffer, i + 1)

extractXMPFromJPEG_anyApp1(buffer) == scanFrom_anyApp1(buffer, 0)

extractXMPFromJPEG(buffer) == scanFrom(buffer, 0)

\* the result of extractXMPFromImage; raised tells whether the call threw
extractXMPFromImage(buffer) ==
    LET xmpData == IF isJPEG(buffer) THEN extractXMPFromJPEG(buffer) ELSE Null
    IN  IF xmpData.isNull \/ xmpData.text = <<>>
        THEN [xmp_found |-> FALSE, xmp_content |-> <<>>, raised |-> FALSE]
        ELSE [xmp_found |-> TRUE, xmp_content |-> xmpData.text, raised |-> FALSE]

(***************************************************************************)
(* Inputs of the codec                                                     *)
(***************************************************************************)
\* successive embeds into one image
MaxEmbeds == 2

SOI == <<255, 216>>

EOI == <<255, 217>>

\* a marker segment: marker, big-endian length (counting itself), body
Segment(marker, body) ==
    <<255, marker, ((Len(body) + 2) \div 256) % 256, (Len(body) + 2) % 256>> \o body

ExifSegment ==
    Segment(225, Codes("Exif") \o <<0, 0>> \o Codes("II*") \o <<0, 8, 0, 0, 0>> \o Zeros(22))

JfifSegment == Segment(224, Codes("JFIF") \o <<0, 1, 1, 0, 0, 1, 0, 1, 0, 0>>)

XmpSegment(text) == Segment(225, xmpSignature \o TextEncode(text))

PngSignature == <<137, 80, 78, 71, 13, 10, 26, 10>>

OldPacket == Codes("<x:xmpmeta>old</x:xmpmeta>")

NonJpegImages ==
    { <<>>,
      <<255>>,
      PngSignature \o Zeros(40),
      XmpSegment(OldPacket),
      <<216, 255>> \o ExifSegment }

JpegImages ==
    { SOI,
      SOI \o EOI,
      SOI \o JfifSegment \o EOI,
      SOI \o ExifSegment \o EOI,
      SOI \o XmpSegment(OldPacket) \o EOI,
      SOI \o XmpSegment(<<>>) \o EOI,
      SOI \o ExifSegment \o XmpSegment(OldPacket) \o EOI,
      SOI \o JfifSegment \o <<0>> \o XmpSegment(OldPacket) \o EOI,
      SOI \o SubSeq(XmpSegment(OldPacket), 1, 20),
      SOI \o <<255, 225, 0, 0>> \o Zeros(40) \o EOI }

InitialImages == NonJpegImages \cup JpegImages

\* the length field of a segment holds 16 bits
LengthFieldLimit == 65536

\* the longest packet whose segment length fits the field, and the next one
LongPackets ==
    { Array([i \in 1..n |-> 97]) :
        n \in { LengthFieldLimit - 1 - Len(xmpSignature) - 2,
                LengthFieldLimit - Len(xmpSignature) - 2 } }

ShortPackets ==
    { <<>>,
      Codes("<x:xmpmeta>new</x:xmpmeta>"),
      Codes("<?xpacket begin=\"") \o <<65279>> \o Codes("\"?><a>caf") \o <<233>> \o Codes("</a>"),
      <<65279>> \o Codes("<a/>"),
      Codes("<a>") \o <<55357, 56832>> \o Codes("</a>"),
      Codes("<a>") \o <<55296>> \o Codes("</a>") }

\* the packets offered to an embed: the long ones go into one fresh image only,
\* and an image that holds a long packet is not embedded into again
PacketChoices(image, done) ==
    IF done = <<>>
    THEN IF image = SOI \o EOI THEN ShortPackets \cup LongPackets ELSE ShortPackets
    ELSE IF done[1] \in LongPackets THEN {} ELSE ShortPackets

NoEmbed == [threw |-> FALSE, value |-> <<>>, message |-> "", buffer |-> <<>>]

NoExtract == [xmp_found |-> FALSE, xmp_content |-> <<>>, raised |-> FALSE]

(***************************************************************************)
(* The codec as a state machine: an image in storage is embedded into,     *)
(* the processed image is stored over it, and it is read back.             *)
(***************************************************************************)
\* the canonicalizer's variables while another component runs
CanonIdle ==
    /\ fieldKey = <<>>
    /\ displayName = <<>>
    /\ redisplayName = <<>>
    /\ containerArgs = [fieldName |-> <<>>, originalKey |-> <<>>, values |-> <<>>]
    /\ containerType = "none"

\* the report tool's variables while another component runs
ReportIdle ==
    /\ metadata = <<>>
    /\ schemaType = <<>>
    /\ organized = [categories |-> <<>>, totalCategories |-> 0, totalFields |-> 0]

\* the serializer's and the parser's variables while another component runs
LedgerIdle ==
    /\ tree = <<>>
    /\ packetSchema = <<>>
    /\ xmpInfo = [threw |-> FALSE, xmp_content |-> <<>>]
    /\ parsed = <<>>
    /\ alteredPacket = <<>>
    /\ parsedAltered = <<>>

\* the image converter's variables while another component runs
PathIdle ==
    /\ originalPath = <<>>
    /\ converted = FALSE
    /\ finalPath = <<>>

\* the schema detection's variables while another component runs
DetectIdle ==
    /\ detectInput = <<>>
    /\ detectedSchema = <<>>

\* the variables ledgerText, damagedLedger, parsedDamaged, extractedDamaged while another component runs
RepairIdle ==
    /\ ledgerText = <<>>
    /\ damagedLedger = <<>>
    /\ parsedDamaged = <<>>
    /\ extractedDamaged = <<>>

\* the variables stampTree, stampSchema, now, firstInfo, secondInfo while another component runs
ClockIdle ==
    /\ stampTree = <<>>
    /\ stampSchema = <<>>
    /\ now = 0
    /\ firstInfo = <<>>
    /\ secondInfo = <<>>

\* the variables readTree, readSchema, readImage, readResult while another component runs
ReadIdle ==
    /\ readTree = <<>>
    /\ readSchema = <<>>
    /\ readImage = <<>>
    /\ readResult = <<>>

\* the variables scanBuffer, scanIndex, scanResult while another component runs
ScanIdle ==
    /\ scanBuffer = <<>>
    /\ scanIndex = 0
    /\ scanResult = Null

\* the variables brokenPacket, brokenParsed while another component runs
FallbackIdle ==
    /\ brokenPacket = <<>>
    /\ brokenParsed = <<>>

\* the variables packetOptions, packetInfo while another component runs
AccountIdle ==
    /\ packetOptions = <<>>
    /\ packetInfo = <<>>

\* the variables labelKey, packetLabel, reportLabel while another component runs
LabelIdle ==
    /\ labelKey = <<>>
    /\ packetLabel = <<>>
    /\ reportLabel = <<>>

\* the variables reportParams, existsResult, downloaded, xmpResult, outputPath, uploadCalls, stored, response while another component runs
ExecIdle ==
    /\ reportParams = <<>>
    /\ existsResult = FALSE
    /\ downloaded = <<>>
    /\ xmpResult = <<>>
    /\ outputPath = <<>>
    /\ uploadCalls = 0
    /\ stored = {}
    /\ response = <<>>

\* the variables embedSource, embedOutput, embedConverted, uploadedTo while another component runs
EmbedIdle ==
    /\ embedSource = <<>>
    /\ embedOutput = <<>>
    /\ embedConverted = FALSE
    /\ uploadedTo = {}

\* the variables plainText, escapedText, restoredText while another component runs
EscapeIdle ==
    /\ plainText = <<>>
    /\ escapedText = <<>>
    /\ restoredText = <<>>

\* the variables ledgerTree, ledgerSchema, reportParsed, enhanced while another component runs
EnhanceIdle ==
    /\ ledgerTree = <<>>
    /\ ledgerSchema = <<>>
    /\ reportParsed = <<>>
    /\ enhanced = <<>>

\* the variables of the other tools while a component runs
ToolIdle ==
    /\ PathIdle
    /\ DetectIdle
    /\ RepairIdle
    /\ ClockIdle
    /\ ReadIdle
    /\ ScanIdle
    /\ FallbackIdle
    /\ AccountIdle
    /\ LabelIdle
    /\ ExecIdle
    /\ EmbedIdle
    /\ EscapeIdle
    /\ EnhanceIdle

InitCodec ==
    /\ pc = "start"
    /\ CanonIdle
    /\ ReportIdle
    /\ LedgerIdle
    /\ ToolIdle
    /\ imageBuffer \in InitialImages
    /\ originalImage = imageBuffer
    /\ xmpPacket = <<>>
    /\ embedResult = NoEmbed
    /\ extractResult = NoExtract
    /\ embedded = <<>>

\* EmbedMetadataTool.execute: embedXMPInImage on the downloaded image
EmbedXMP ==
    /\ Len(embedded) < MaxEmbeds
    /\ \E packet \in PacketChoices(imageBuffer, embedded) :
          LET r == embedXMPInImage(imageBuffer, packet)
          IN  /\ xmpPacket' = packet
              /\ embedResult' = r
              /\ imageBuffer' = r.buffer
    /\ pc' = "embed"
    /\ extractResult' = NoExtract
    /\ UNCHANGED <<originalImage, embedded, canonVars, reportVars, ledgerVars, toolVars>>

\* EmbedMetadataTool.execute: the processed image is uploaded
UploadProcessed ==
    /\ pc = "embed"
    /\ ~embedResult.threw
    /\ imageBuffer' = embedResult.value
    /\ embedded' = <<xmpPacket>> \o embedded
    /\ pc' = "upload"
    /\ UNCHANGED <<xmpPacket, embedResult, extractResult, originalImage, canonVars, reportVars, ledgerVars, toolVars>>

\* ReadMetadataTool.extractMetadata: extractXMPFromImage on the downloaded image
ExtractXMP ==
    /\ pc \in {"start", "upload"}
    /\ extractResult' = extractXMPFromImage(imageBuffer)
    /\ pc' = "extract"
    /\ UNCHANGED <<imageBuffer, xmpPacket, embedResult, originalImage, embedded, canonVars, reportVars, ledgerVars, toolVars>>

NextCodec == EmbedXMP \/ UploadProcessed \/ ExtractXMP

SpecCodec == InitCodec /\ [][NextCodec]_vars

(***************************************************************************)
(* Claims about the embedder and the extractor                             *)
(***************************************************************************)
\* the 0-based offsets at which buffer holds an APP1 marker whose body starts with
\* the XMP signature
XmpSegmentOffsets(buffer) ==
    { i \in 0..(Len(buffer) - 1) :
        /\ At(buffer, i) = 255
        /\ At(buffer, i + 1) = 225
        /\ \A j \in 0..(Len(xmpSignature) - 1) : At(buffer, i + 4 + j) = xmpSignature[j + 1] }

\* the claims' "first two bytes are FF D8"
StartsWithFFD8(b) == Len(b) >= 2 /\ b[1] = 255 /\ b[2] = 216

\* C1: reading back an image that a packet was embedded into finds a packet and
\* returns the text that was embedded last, whatever its length.
C1_RoundTrip ==
    (pc = "extract" /\ embedded # <<>>) =>
        (extractResult.xmp_found /\ extractResult.xmp_content = embedded[1])

\* C2: embedding into a JPEG stream b returns b[0..1], then one APP1 segment (marker,
\* two length bytes, the 29 signature bytes, the UTF-8 bytes of the packet), then
\* b[2..] unchanged; the result is 33 + byteLength(packet) longer than b, and the
\* only packet segment it gained is the one at offset 2, before all that b had.
C2_EmbedFrame ==
    (pc = "embed" /\ StartsWithFFD8(imageBuffer)) =>
        LET b == imageBuffer
            out == embedResult.value
            n == ByteLength(xmpPacket)
        IN  /\ ~embedResult.threw
            /\ Len(out) = Len(b) + 33 + n
            /\ Slice(out, 0, 2) = Slice(b, 0, 2)
            /\ Slice(out, 2, 4) = <<255, 225>>
            /\ Slice(out, 6, 35) = xmpSignature
            /\ Slice(out, 35, 35 + n) = TextEncode(xmpPacket)
            /\ Slice(out, 35 + n, Len(out)) = Slice(b, 2, Len(b))
            /\ XmpSegmentOffsets(out) = {2} \cup { k + 33 + n : k \in XmpSegmentOffsets(b) }

C2_Witness ==
    /\ pc = "embed"
    /\ imageBuffer = SOI \o ExifSegment \o XmpSegment(OldPacket) \o EOI
    /\ ByteLength(xmpPacket) > Len(xmpPacket)
    /\ ~embedResult.threw
    /\ Len(embedResult.value) = Len(imageBuffer) + 33 + ByteLength(xmpPacket)

\* C3: embedXMPInImage on a buffer that does not start with FF D8 throws, returns no
\* stream, and leaves the caller's buffer as it was.
C3_NonJpegFails ==
    [][(pc' = "embed" /\ ~StartsWithFFD8(imageBuffer)) =>
          /\ embedResult'.threw
          /\ embedResult'.value = <<>>
          /\ imageBuffer' = imageBuffer]_vars

C3_Witness ==
    /\ pc = "embed"
    /\ imageBuffer = PngSignature \o Zeros(40)
    /\ embedResult.threw
    /\ embedResult.value = <<>>

\* C8: on a stream that holds no APP1 segment with the XMP signature (empty,
\* truncated and non-JPEG streams included) extractXMPFromImage does not throw and
\* returns xmp_found = false.
C8_ExtractNotFound ==
    (pc = "extract" /\ XmpSegmentOffsets(imageBuffer) = {}) =>
        (~extractResult.raised /\ ~extractResult.xmp_found)

C8_Witness ==
    /\ pc = "extract"
    /\ imageBuffer = SOI \o ExifSegment \o EOI
    /\ XmpSegmentOffsets(imageBuffer) = {}
    /\ ~extractResult.raised
    /\ ~extractResult.xmp_found


(***************************************************************************)
(* String methods used by the canonicalizer and the classifier.  Keys and  *)
(* display names are ASCII in this model, where toUpperCase / toLowerCase  *)
(* change the 26 letters only.                                             *)
(***************************************************************************)
startsWith(str, prefix) ==
    Len(str) >= Len(prefix) /\ SubSeq(str, 1, Len(prefix)) = prefix

endsWith(str, suffix) ==
    Len(str) >= Len(suffix) /\ SubSeq(str, Len(str) - Len(suffix) + 1, Len(str)) = suffix

includes(str, search) ==
    \/ Len(search) = 0
    \/ \E i \in 1..(Len(str) - Len(search) + 1) :
           str[i] = search[1] /\ SubSeq(str, i, i + Len(search) - 1) = search

substring(str, start) == SubSeq(str, Min(start, Len(str)) + 1, Len(str))

\* 1-based position of the first sep in str, 0 when there is none
indexOf(str, sep) ==
    IF \E i \in 1..Len(str) : str[i] = sep
    THEN CHOOSE i \in 1..Len(str) : str[i] = sep /\ \A j \in 1..(i - 1) : str[j] # sep
    ELSE 0

RECURSIVE split(_, _)
split(str, sep) ==
    LET i == indexOf(str, sep)
    IN  IF i = 0 THEN <<str>>
        ELSE <<SubSeq(str, 1, i - 1)>> \o split(SubSeq(str, i + 1, Len(str)), sep)

RECURSIVE join(_, _)
join(parts, sep) ==
    IF Len(parts) = 0 THEN <<>>
    ELSE IF Len(parts) = 1 THEN parts[1]
    ELSE parts[1] \o sep \o join(Tail(parts), sep)

toUpperCase(str) ==
    Array([i \in 1..Len(str) |-> IF str[i] >= 97 /\ str[i] <= 122 THEN str[i] - 32 ELSE str[i]])

toLowerCase(str) ==
    Array([i \in 1..Len(str) |-> IF str[i] >= 65 /\ str[i] <= 90 THEN str[i] + 32 ELSE str[i]])

\* the characters \s and trim() treat as white space (Latin-1 range and U+FEFF)
isWhiteSpace(c) == c \in {9, 10, 11, 12, 13, 32, 160, 65279}

RECURSIVE trim(_)
trim(str) ==
    IF Len(str) = 0 THEN str
    ELSE IF isWhiteSpace(str[1]) THEN trim(Tail(str))
    ELSE IF isWhiteSpace(str[Len(str)]) THEN trim(SubSeq(str, 1, Len(str) - 1))
    ELSE str

\* str.replace(/\s+/g, '_')
RECURSIVE replaceWhiteSpaceRuns(_)
replaceWhiteSpaceRuns(str) ==
    IF Len(str) = 0 THEN str
    ELSE IF isWhiteSpace(str[1])
         THEN IF Len(str) >= 2 /\ isWhiteSpace(str[2])
              THEN replaceWhiteSpaceRuns(Tail(str))
              ELSE <<95>> \o replaceWhiteSpaceRuns(Tail(str))
         ELSE <<str[1]>> \o replaceWhiteSpaceRuns(Tail(str))

Underscore == 95

Comma == 44

(***************************************************************************)
(* beautifyFieldName and toTitleCase                                       *)
(***************************************************************************)
schemaTypes == <<Codes("product"), Codes("lifestyle"), Codes("orbit")>>

sectionPrefixes ==
    << Codes("scene_overview_"), Codes("human_elements_"), Codes("environment_"),
       Codes("key_objects_"), Codes("atmospheric_elements_"), Codes("narrative_analysis_"),
       Codes("photographic_elements_"), Codes("marketing_potential_"),
       Codes("product_identification_"), Codes("physical_characteristics_"),
       Codes("structural_elements_"), Codes("design_attributes_"),
       Codes("commercial_analysis_"), Codes("quality_assessment_") >>

wholeTermPatterns ==
    << Codes("time_of_day"), Codes("number_of_people"), Codes("age_group"),
       Codes("construction_quality"), Codes("material_quality"), Codes("finish_quality") >>

meaningfulPatterns ==
    << <<Codes("emotional"), Codes("hooks")>>, <<Codes("social"), Codes("dynamics")>>,
       <<Codes("primary"), Codes("color")>>, <<Codes("target"), Codes("market")>>,
       <<Codes("product"), Codes("type")>>, <<Codes("design"), Codes("style")>>,
       <<Codes("visual"), Codes("style")>>, <<Codes("market"), Codes("positioning")>>,
       <<Codes("brand"), Codes("alignment")>>, <<Codes("lifestyle"), Codes("values")>>,
       <<Codes("cultural"), Codes("significance")>>, <<Codes("technical"), Codes("qualities")>>,
       <<Codes("focal"), Codes("points")>> >>

\* word.charAt(0).toUpperCase() + word.slice(1).toLowerCase()
capitalize(word) ==
    toUpperCase(SubSeq(word, 1, Min(1, Len(word)))) \o toLowerCase(SubSeq(word, 2, Len(word)))

toTitleCase(str) ==
    LET words == split(str, Underscore)
    IN  join([i \in 1..Len(words) |-> capitalize(words[i])], <<32>>)

\* key.replace(/^(product|lifestyle|orbit)_/, '')
removeSchemaPrefix(key) ==
    IF \E i \in 1..Len(schemaTypes) : startsWith(key, schemaTypes[i] \o <<Underscore>>)
    THEN LET i == CHOOSE j \in 1..Len(schemaTypes) : startsWith(key, schemaTypes[j] \o <<Underscore>>)
         IN  substring(key, Len(schemaTypes[i]) + 1)
    ELSE key

\* the loop over sectionPrefixes: the first prefix that matches is removed
removeSectionPrefix(cleanKey) ==
    IF \E i \in 1..Len(sectionPrefixes) : startsWith(cleanKey, sectionPrefixes[i])
    THEN LET i == CHOOSE j \in 1..Len(sectionPrefixes) :
                      /\ startsWith(cleanKey, sectionPrefixes[j])
                      /\ \A k \in 1..(j - 1) : ~startsWith(cleanKey, sectionPrefixes[k])
         IN  substring(cleanKey, Len(sectionPrefixes[i]))
    ELSE cleanKey

\* parts.slice(-2)
lastTwo(parts) == SubSeq(parts, Max(1, Len(parts) - 1), Len(parts))

beautifyFieldName(key) ==
    LET cleanKey == removeSectionPrefix(removeSchemaPrefix(key))
        parts == split(cleanKey, Underscore)
        isWholeCompoundTerm ==
            \E i \in 1..Len(wholeTermPatterns) :
                endsWith(cleanKey, wholeTermPatterns[i]) \/ cleanKey = wholeTermPatterns[i]
        isMatchingPattern ==
            \E i \in 1..Len(meaningfulPatterns) :
                /\ meaningfulPatterns[i][1] = lastTwo(parts)[1]
                /\ meaningfulPatterns[i][2] = lastTwo(parts)[2]
        processedName ==
            IF isWholeCompoundTerm THEN cleanKey
            ELSE IF Len(parts) = 2 THEN join(parts, <<Underscore>>)
            ELSE IF isMatchingPattern \/ Len(parts) = 3 THEN join(lastTwo(parts), <<Underscore>>)
            ELSE join(lastTwo(parts), <<Underscore>>)
    IN  IF Len(parts) <= 1 THEN toTitleCase(cleanKey) ELSE toTitleCase(processedName)

(***************************************************************************)
(* parseArrayValue (for a string value) and getSemanticContainerType       *)
(***************************************************************************)
parseArrayValue(value) ==
    IF includes(value, <<Comma>>)
    THEN LET items == split(value, Comma)
             trimmed == [i \in 1..Len(items) |-> trim(items[i])]
         IN  SelectSeq(trimmed, LAMBDA item : Len(item) > 0)
    ELSE <<value>>

sequentialPatterns ==
    << Codes("demographics"), Codes("age_group"), Codes("gender"), Codes("ethnicity"),
       Codes("clothing_style"),
       Codes("emotional_states"), Codes("emotions"), Codes("emotional_hooks"),
       Codes("mood_indicators"),
       Codes("food_and_beverage"), Codes("food_beverage"), Codes("furniture"),
       Codes("key_objects"), Codes("defining_props"),
       Codes("focal_points"), Codes("visual_elements"), Codes("primary_elements"),
       Codes("color_palette"), Codes("primary_colors"), Codes("secondary_colors"),
       Codes("color_scheme"),
       Codes("story_elements"), Codes("narrative_elements"), Codes("activities"),
       Codes("interactions"),
       Codes("technical_qualities"), Codes("quality_indicators"),
       Codes("architectural_elements"), Codes("natural_elements"), Codes("defining_props"),
       Codes("aspirational_elements"), Codes("brand_alignment_opportunities") >>

unorderedPatterns ==
    << Codes("keywords"), Codes("tags"), Codes("categories"), Codes("classifications"),
       Codes("organizations"), Codes("organisation"), Codes("person_names"),
       Codes("people_names"),
       Codes("equipment"), Codes("tools"), Codes("technology"), Codes("devices"),
       Codes("gadgets"),
       Codes("target_market"), Codes("market_segments"), Codes("competitive_advantages"),
       Codes("advantages"),
       Codes("business_categories"), Codes("industry_categories"),
       Codes("attributes"), Codes("characteristics"), Codes("features"),
       Codes("sensory_cues"), Codes("ambient_sounds"), Codes("weather_conditions"),
       Codes("personal_items"), Codes("accessories"), Codes("miscellaneous") >>

ageProgression ==
    << Codes("young"), Codes("middle"), Codes("old"), Codes("adult"), Codes("child"),
       Codes("teen") >>

intensityProgression ==
    << Codes("high"), Codes("low"), Codes("medium"), Codes("intense"), Codes("mild"),
       Codes("strong"), Codes("weak") >>

temporalProgression ==
    << Codes("first"), Codes("second"), Codes("primary"), Codes("secondary"), Codes("main"),
       Codes("background") >>

fallbackWords ==
    << Codes("human"), Codes("people"), Codes("emotional"), Codes("visual"),
       Codes("narrative"), Codes("story") >>

\* v.match(/a|b|c/i) for the alternatives in words
matchesAny(v, words) ==
    \E i \in 1..Len(words) : includes(toLowerCase(v), words[i])

\* normalizedField.includes(pattern) || normalizedKey.includes(pattern), for some pattern
matchesPattern(normalizedField, normalizedKey, patterns) ==
    \E i \in 1..Len(patterns) :
        includes(normalizedField, patterns[i]) \/ includes(normalizedKey, patterns[i])

\* hasAgeProgression || hasIntensityProgression || hasTemporalProgression
hasProgression(values) ==
    \/ \E k \in 1..Len(values) : matchesAny(values[k], ageProgression)
    \/ \E k \in 1..Len(values) : matchesAny(values[k], intensityProgression)
    \/ \E k \in 1..Len(values) : matchesAny(values[k], temporalProgression)

\* a classifier that checks the sequential patterns before the unordered ones
getSemanticContainerType_seqFirst(fieldName, originalKey, values) ==
    LET normalizedField == toLowerCase(fieldName)
        normalizedKey == toLowerCase(originalKey)
    IN  IF matchesPattern(normalizedField, normalizedKey, sequentialPatterns) THEN "seq"
        ELSE IF matchesPattern(normalizedField, normalizedKey, unorderedPatterns) THEN "bag"
        ELSE IF Len(values) > 0 /\ hasProgression(values) THEN "seq"
        ELSE IF \E i \in 1..Len(fallbackWords) : includes(normalizedField, fallbackWords[i])
        THEN "seq"
        ELSE "bag"

getSemanticContainerType(fieldName, originalKey, values) ==
    LET normalizedField == toLowerCase(fieldName)
        normalizedKey == toLowerCase(originalKey)
    IN  IF matchesPattern(normalizedField, normalizedKey, unorderedPatterns) THEN "bag"
        ELSE IF matchesPattern(normalizedField, normalizedKey, sequentialPatterns) THEN "seq"
        ELSE IF Len(values) > 0 /\ hasProgression(values) THEN "seq"
        ELSE IF \E i \in 1..Len(fallbackWords) : includes(normalizedField, fallbackWords[i])
        THEN "seq"
        ELSE "bag"

(***************************************************************************)
(* Keys and values handed to the canonicalizer and the classifier: the     *)
(* keys of the project's sample documents, every idiom under every schema  *)
(* and section, and every key of at most MaxTokens tokens of a vocabulary  *)
(* with and without a schema and a section prefix.                         *)
(***************************************************************************)
MaxTokens == 3

Vocabulary ==
    { Codes("time"), Codes("of"), Codes("day"), Codes("language"), Codes("age"),
      Codes("group") }

TokenStrings(n) == { join(Array(f), <<Underscore>>) : f \in [1..n -> Vocabulary] }

SampleKeys ==
    { Codes("lifestyle_scene_overview_time_of_day"),
      Codes("lifestyle_marketing_potential_emotional_hooks"),
      Codes("product_product_identification_product_type"),
      Codes("lifestyle_key_objects_technology"),
      Codes("lifestyle_key_objects_furniture"),
      Codes("lifestyle_human_elements_number_of_people"),
      Codes("lifestyle_human_elements_demographics"),
      Codes("lifestyle_human_elements_social_dynamics"),
      Codes("lifestyle_human_elements_setting_kind"),
      Codes("lifestyle_photographic_elements_visual_style"),
      Codes("lifestyle_environment_location_type"),
      Codes("lifestyle_atmospheric_elements_primary_color_palette"),
      Codes("lifestyle_narrative_analysis_story_implied"),
      Codes("lifestyle_human_elements_primary_language_group"),
      Codes("product_design_attributes_primary_color"),
      Codes("product_commercial_analysis_market_positioning"),
      Codes("product_commercial_analysis_target_market"),
      Codes("product_quality_assessment_construction_quality"),
      Codes("product_physical_characteristics_materials"),
      Codes("orbit_scene_overview_setting"),
      Codes("product_environment_scene_overview_setting"),
      Codes("lifestyle_lifestyle_values"),
      Codes("lifestyle_time_of_day"),
      Codes("scene_overview_time_of_day"),
      Codes("human_elements_age_group"),
      Codes("Lifestyle_Scene_Overview_Setting"),
      Codes("scene_overview_"),
      Codes("lifestyle"),
      Codes("lifestyle_"),
      Codes("_"),
      Codes("a__b"),
      Codes("camelCase"),
      Codes("HTML_source"),
      Codes("demographics"),
      Codes("location_type"),
      Codes("setting") }

IdiomKeys ==
    { schemaTypes[s] \o <<Underscore>> \o sectionPrefixes[p] \o wholeTermPatterns[w] :
        s \in 1..Len(schemaTypes), p \in 1..Len(sectionPrefixes), w \in 1..Len(wholeTermPatterns) }

GeneratedKeys ==
    { prefix \o tail :
        prefix \in {<<>>, Codes("lifestyle_scene_overview_")},
        tail \in UNION { TokenStrings(n) : n \in 0..MaxTokens } }

FieldKeys == SampleKeys \cup IdiomKeys \cup GeneratedKeys

FieldValues ==
    { Codes("Laptop, Phone"),
      Codes("Young adults, Children"),
      Codes("Gold ring, Silver chain"),
      Codes("Oak, Pine"),
      Codes(" Oak ,, Pine , "),
      Codes("Busy restaurant terrace") }

\* the codec's variables while another component runs
CodecIdle ==
    /\ imageBuffer = <<>>
    /\ xmpPacket = <<>>
    /\ embedResult = NoEmbed
    /\ extractResult = NoExtract
    /\ originalImage = <<>>
    /\ embedded = <<>>

NoArgs == [fieldName |-> <<>>, originalKey |-> <<>>, values |-> <<>>]

(***************************************************************************)
(* The canonicalizer and the classifier at work while a packet is written  *)
(***************************************************************************)
InitCanon ==
    /\ pc = "start"
    /\ CodecIdle
    /\ ReportIdle
    /\ LedgerIdle
    /\ ToolIdle
    /\ fieldKey \in FieldKeys
    /\ displayName = <<>>
    /\ redisplayName = <<>>
    /\ containerArgs = NoArgs
    /\ containerType = "none"

\* const beautifiedName = this.beautifyFieldName(key)
Beautify ==
    /\ pc = "start"
    /\ displayName' = beautifyFieldName(fieldKey)
    /\ pc' = "beautified"
    /\ UNCHANGED <<fieldKey, redisplayName, containerArgs, containerType, codecVars, reportVars, ledgerVars, toolVars>>

\* a display name handed to beautifyFieldName again
BeautifyAgain ==
    /\ pc = "beautified"
    /\ redisplayName' = beautifyFieldName(displayName)
    /\ pc' = "rebeautified"
    /\ UNCHANGED <<fieldKey, displayName, containerArgs, containerType, codecVars, reportVars, ledgerVars, toolVars>>

\* generateCustomORBITBlock: a value of several items gets a semantic container
ClassifyOrbitField ==
    /\ pc = "beautified"
    /\ \E value \in FieldValues :
        LET fieldName == replaceWhiteSpaceRuns(displayName)
            arrayValues == parseArrayValue(value)
        IN  /\ Len(arrayValues) > 1
            /\ containerArgs' = [fieldName |-> fieldName, originalKey |-> fieldKey,
                                 values |-> arrayValues]
            /\ containerType' = getSemanticContainerType(fieldName, fieldKey, arrayValues)
    /\ pc' = "classified"
    /\ UNCHANGED <<fieldKey, displayName, redisplayName, codecVars, reportVars, ledgerVars, toolVars>>

\* mapToIPTC and generateIPTCBlock: PersonInImage from the demographics,
\* OrganisationInImageName from a location that names a restaurant, bar or cafe
ClassifyIptcField ==
    /\ pc = "beautified"
    /\ \E value \in FieldValues :
        \/ /\ endsWith(fieldKey, Codes("demographics"))
           /\ Len(parseArrayValue(value)) > 0
           /\ containerArgs' = [fieldName |-> Codes("PersonInImage"), originalKey |-> <<>>,
                                values |-> parseArrayValue(value)]
           /\ containerType' =
                  getSemanticContainerType(Codes("PersonInImage"), <<>>, parseArrayValue(value))
        \/ /\ endsWith(fieldKey, Codes("location_type"))
           /\ \/ includes(value, Codes("restaurant"))
              \/ includes(value, Codes("bar"))
              \/ includes(value, Codes("cafe"))
           /\ containerArgs' = [fieldName |-> Codes("OrganisationInImageName"),
                                originalKey |-> <<>>,
                                values |-> <<Codes("Unidentified ") \o toLowerCase(value)>>]
           /\ containerType' =
                  getSemanticContainerType(Codes("OrganisationInImageName"), <<>>,
                                           <<Codes("Unidentified ") \o toLowerCase(value)>>)
    /\ pc' = "classified"
    /\ UNCHANGED <<fieldKey, displayName, redisplayName, codecVars, reportVars, ledgerVars, toolVars>>

NextCanon == Beautify \/ BeautifyAgain \/ ClassifyOrbitField \/ ClassifyIptcField

SpecCanon == InitCanon /\ [][NextCanon]_vars

(***************************************************************************)
(* Claims about the canonicalizer and the classifier                       *)
(***************************************************************************)

\* C6: canonicalization is idempotent: beautifyFieldName applied to a display
\* name returns that display name unchanged.
C6_Idempotent ==
    pc = "rebeautified" => redisplayName = displayName

\* the reference algorithm of C10, on tokens
C10_Title(tokens) == join([i \in 1..Len(tokens) |-> capitalize(tokens[i])], <<32>>)

C10_SectionTokens ==
    [p \in 1..Len(sectionPrefixes) |->
        split(SubSeq(sectionPrefixes[p], 1, Len(sectionPrefixes[p]) - 1), Underscore)]

C10_IdiomTokens == [w \in 1..Len(wholeTermPatterns) |-> split(wholeTermPatterns[w], Underscore)]

C10_TokenPrefix(tokens, pre) ==
    Len(tokens) > Len(pre) /\ SubSeq(tokens, 1, Len(pre)) = pre

C10_TokenSuffix(tokens, suf) ==
    Len(tokens) >= Len(suf) /\ SubSeq(tokens, Len(tokens) - Len(suf) + 1, Len(tokens)) = suf

C10_Reference(key) ==
    LET tokens == split(key, Underscore)
        afterSchema ==
            IF Len(tokens) >= 2 /\ \E s \in 1..Len(schemaTypes) : tokens[1] = schemaTypes[s]
            THEN Tail(tokens) ELSE tokens
        matching == { p \in 1..Len(sectionPrefixes) :
                        C10_TokenPrefix(afterSchema, C10_SectionTokens[p]) }
        first == CHOOSE p \in matching : \A q \in matching : p <= q
        rest == IF matching = {} THEN afterSchema
                ELSE SubSeq(afterSchema, Len(C10_SectionTokens[first]) + 1, Len(afterSchema))
    IN  IF Len(rest) = 1 THEN C10_Title(rest)
        ELSE IF \E w \in 1..Len(wholeTermPatterns) : C10_TokenSuffix(rest, C10_IdiomTokens[w])
        THEN C10_Title(rest)
        ELSE IF Len(rest) = 2 THEN C10_Title(rest)
        ELSE C10_Title(SubSeq(rest, Len(rest) - 1, Len(rest)))

\* C10: beautifyFieldName(k) equals the reference algorithm for every key k
\* (strip one schema token, strip the first matching section prefix, title-case
\* a single token, keep a remainder ending in a whole idiom, keep two tokens,
\* keep the last two of three or more), with the three named examples.
C10_MatchesReference ==
    pc = "beautified" =>
        /\ displayName = C10_Reference(fieldKey)
        /\ (fieldKey \in { schemaTypes[s] \o <<Underscore>> \o sectionPrefixes[p]
                               \o Codes("time_of_day") :
                           s \in 1..Len(schemaTypes), p \in 1..Len(sectionPrefixes) }
              => displayName = Codes("Time Of Day"))
        /\ (fieldKey = Codes("lifestyle_marketing_potential_emotional_hooks")
              => displayName = Codes("Emotional Hooks"))
        /\ (fieldKey = Codes("product_product_identification_product_type")
              => displayName = Codes("Product Type"))

\* the decision list of C9
C9_Contains(text, vocabulary) ==
    \E i \in 1..Len(vocabulary) : includes(toLowerCase(text), vocabulary[i])

C9_Cues == ageProgression \o intensityProgression \o temporalProgression

C9_Decision(name, key, values) ==
    CASE C9_Contains(name, unorderedPatterns) \/ C9_Contains(key, unorderedPatterns) -> "bag"
      [] OTHER ->
    CASE C9_Contains(name, sequentialPatterns) \/ C9_Contains(key, sequentialPatterns) -> "seq"
      [] OTHER ->
    CASE \E k \in 1..Len(values) : C9_Contains(values[k], C9_Cues) -> "seq"
      [] OTHER ->
    CASE C9_Contains(name, fallbackWords) -> "seq"
      [] OTHER -> "bag"

\* C9: getSemanticContainerType(name, key, values) is the first matching rule
\* of the decision list (a) unordered token in name or key -> bag, (b) ordered
\* token in name or key -> seq, (c) a value with an age, intensity or priority
\* cue -> seq, (d) name contains human/people/emotional/visual/narrative/story
\* -> seq, (e) otherwise bag; lifestyle_key_objects_technology is a bag.
C9_DecisionList ==
    pc = "classified" =>
        /\ containerType = C9_Decision(containerArgs.fieldName, containerArgs.originalKey,
                                       containerArgs.values)
        /\ (containerArgs.originalKey = Codes("lifestyle_key_objects_technology")
              => containerType = "bag")

C9_Witness ==
    /\ pc = "classified"
    /\ containerArgs.originalKey = Codes("lifestyle_key_objects_technology")
    /\ containerArgs.fieldName = Codes("Technology")
    /\ containerType = "bag"


(***************************************************************************)
(* The category organizer of the report tool.  An object is the sequence   *)
(* of its entries in insertion order; an entry's value is a string or an   *)
(* object.  The emoji of a category plays no part in the assignment.       *)
(***************************************************************************)
StringEntry(key, text) == [key |-> key, isObject |-> FALSE, text |-> text, fields |-> <<>>]

ObjectEntry(key, fields) == [key |-> key, isObject |-> TRUE, text |-> <<>>, fields |-> fields]

\* Object.keys(obj)
objectKeys(obj) == Array([i \in 1..Len(obj) |-> obj[i].key])

hasKey(obj, key) == \E i \in 1..Len(obj) : obj[i].key = key

\* obj[key], for a key the object has
getField(obj, key) == obj[CHOOSE i \in 1..Len(obj) : obj[i].key = key]

\* obj[entry.key] = entry
setField(obj, entry) ==
    IF hasKey(obj, entry.key)
    THEN Array([i \in 1..Len(obj) |-> IF obj[i].key = entry.key THEN entry ELSE obj[i]])
    ELSE Append(obj, entry)

standardCategories ==
    << [name |-> "Image Metadata",
         fields |->
            << Codes("dublin_core_title"), Codes("dublin_core_description"),
               Codes("dublin_core_subject"), Codes("dublin_core_creator"),
               Codes("dublin_core_rights"), Codes("dublin_core_format"),
               Codes("dublin_core_identifier") >>],
       [name |-> "Technical Metadata",
         fields |->
            << Codes("xmp_core_creator_tool"), Codes("xmp_core_create_date"),
               Codes("xmp_core_metadata_date"), Codes("xmp_core_toolkit"),
               Codes("photoshop_color_mode"), Codes("iptc_source"),
               Codes("iptc_instructions"), Codes("iptc_person_in_image") >>],
       [name |-> "Processing Metadata",
         fields |->
            << Codes("processing_processed_timestamp"), Codes("processing_processor_version"),
               Codes("processing_schema_type"), Codes("processing_processor_location") >>] >>

lifestyleCategories ==
    << [name |-> "Scene Overview",
         fields |->
            << Codes("scene_overview_setting"), Codes("setting"),
               Codes("scene_overview_time_of_day"), Codes("time_of_day"),
               Codes("scene_overview_season"), Codes("season"),
               Codes("scene_overview_occasion"), Codes("occasion"),
               Codes("scene_overview_primary_activity"), Codes("primary_activity") >>],
       [name |-> "Human Elements",
         fields |->
            << Codes("human_elements_number_of_people"), Codes("number_of_people"),
               Codes("human_elements_social_dynamics"), Codes("social_dynamics"),
               Codes("human_elements_demographics"), Codes("demographics"),
               Codes("human_elements_interactions"), Codes("interactions"),
               Codes("human_elements_emotional_states"), Codes("emotional_states"),
               Codes("human_elements_clothing_style"), Codes("clothing_style") >>],
       [name |-> "Environment",
         fields |->
            << Codes("environment_location_type"), Codes("location_type"),
               Codes("environment_architectural_elements"), Codes("architectural_elements"),
               Codes("environment_natural_elements"), Codes("natural_elements"),
               Codes("environment_urban_context"), Codes("urban_context"),
               Codes("environment_spatial_arrangement"), Codes("spatial_arrangement") >>],
       [name |-> "Key Objects",
         fields |->
            << Codes("key_objects_food_beverage"), Codes("food_and_beverage"),
               Codes("key_objects_furniture"), Codes("furniture"),
               Codes("key_objects_technology"), Codes("technology"),
               Codes("key_objects_decorative_items"), Codes("decorative_items"),
               Codes("key_objects_defining_props"), Codes("defining_props"),
               Codes("key_objects_personal_items"), Codes("personal_items") >>],
       [name |-> "Atmospheric Elements",
         fields |->
            << Codes("atmospheric_elements_lighting_quality"), Codes("lighting_quality"),
               Codes("atmospheric_elements_color_palette"), Codes("color_palette"),
               Codes("atmospheric_elements_primary_colors"), Codes("primary_colors"),
               Codes("atmospheric_elements_mood"), Codes("mood"),
               Codes("atmospheric_elements_mood_indicators"), Codes("mood_indicators"),
               Codes("atmospheric_elements_sensory_cues"), Codes("sensory_cues"),
               Codes("atmospheric_elements_weather_conditions"), Codes("weather_conditions") >>],
       [name |-> "Narrative Analysis",
         fields |->
            << Codes("narrative_analysis_story"), Codes("narrative_analysis_story_elements"),
               Codes("story_implied"), Codes("Story_Implied"),
               Codes("narrative_analysis_cultural_significance"),
               Codes("cultural_significance"), Codes("narrative_analysis_cultural_context"),
               Codes("cultural_context"), Codes("historical_context"),
               Codes("Historical_Context"),
               Codes("narrative_analysis_socioeconomic_indicators"),
               Codes("socioeconomic_indicators"),
               Codes("narrative_analysis_values_represented"), Codes("values_represented"),
               Codes("narrative_analysis_lifestyle_category"), Codes("lifestyle_values") >>],
       [name |-> "Photographic Elements",
         fields |->
            << Codes("photographic_elements_composition"), Codes("composition"),
               Codes("photographic_elements_perspective"), Codes("perspective"),
               Codes("photographic_elements_focal_points"), Codes("focal_points"),
               Codes("photographic_elements_depth_of_field"), Codes("depth_of_field"),
               Codes("photographic_elements_visual_style"), Codes("visual_style"),
               Codes("photographic_elements_technical_qualities"), Codes("technical_qualities") >>],
       [name |-> "Marketing Potential",
         fields |->
            << Codes("marketing_potential_target_demographic"), Codes("target_demographic"),
               Codes("marketing_potential_aspirational_elements"),
               Codes("aspirational_elements"),
               Codes("marketing_potential_brand_alignment_opportunities"),
               Codes("brand_alignment_opportunities"),
               Codes("marketing_potential_emotional_hooks"), Codes("emotional_hooks"),
               Codes("marketing_potential_market_appeal"), Codes("alignment_opportunities") >>] >>

productCategories ==
    << [name |-> "Product Identification",
         fields |->
            << Codes("product_identification_product_type"), Codes("product_type"),
               Codes("product_identification_product_category"), Codes("product_category"),
               Codes("product_identification_design_style"), Codes("design_style"),
               Codes("product_identification_brand"), Codes("brand"),
               Codes("product_identification_model"), Codes("model") >>],
       [name |-> "Physical Characteristics",
         fields |->
            << Codes("physical_characteristics_primary_color"), Codes("primary_color"),
               Codes("physical_characteristics_secondary_colors"), Codes("secondary_colors"),
               Codes("physical_characteristics_material"), Codes("material"),
               Codes("physical_characteristics_pattern_type"), Codes("pattern_type"),
               Codes("physical_characteristics_surface_texture"), Codes("surface_texture"),
               Codes("physical_characteristics_finish"), Codes("finish"),
               Codes("physical_characteristics_dimensions"), Codes("dimensions"),
               Codes("physical_characteristics_weight"), Codes("weight") >>],
       [name |-> "Structural Elements",
         fields |->
            << Codes("structural_elements_frame_type"), Codes("frame_type"),
               Codes("structural_elements_frame_design"), Codes("frame_design"),
               Codes("structural_elements_leg_structure"), Codes("leg_structure"),
               Codes("structural_elements_support_systems"), Codes("support_systems"),
               Codes("structural_elements_construction_details"), Codes("construction_details") >>],
       [name |-> "Design Attributes",
         fields |->
            << Codes("design_attributes_aesthetic_category"), Codes("aesthetic_category"),
               Codes("design_attributes_design_era"), Codes("design_era"),
               Codes("design_attributes_visual_weight"), Codes("visual_weight"),
               Codes("design_attributes_design_influence"), Codes("design_influence"),
               Codes("design_attributes_style_elements"), Codes("style_elements"),
               Codes("design_attributes_intended_setting"), Codes("intended_setting") >>],
       [name |-> "Commercial Analysis",
         fields |->
            << Codes("commercial_analysis_market_positioning"), Codes("market_positioning"),
               Codes("commercial_analysis_target_market"), Codes("target_market"),
               Codes("commercial_analysis_price_point_indication"), Codes("price_point"),
               Codes("commercial_analysis_competitive_advantages"),
               Codes("competitive_advantages"),
               Codes("commercial_analysis_market_differentiation"),
               Codes("market_differentiation"), Codes("commercial_analysis_retail_category"),
               Codes("retail_category") >>],
       [name |-> "Quality Assessment",
         fields |->
            << Codes("quality_assessment_construction_quality"),
               Codes("construction_quality"), Codes("quality_assessment_material_quality"),
               Codes("material_quality"), Codes("quality_assessment_finish_quality"),
               Codes("finish_quality"), Codes("quality_assessment_craftsmanship_level"),
               Codes("craftsmanship_level"),
               Codes("quality_assessment_durability_indicators"),
               Codes("durability_indicators"), Codes("quality_assessment_value_proposition"),
               Codes("value_proposition") >>] >>

orbitCategories ==
    << [name |-> "Scene Overview",
         fields |->
            << Codes("scene_overview_setting"), Codes("scene_overview_time_of_day"),
               Codes("scene_overview_activities"), Codes("scene_overview_overall_mood"),
               Codes("scene_overview_scene_complexity") >>],
       [name |-> "Human Elements",
         fields |->
            << Codes("human_elements_people_count"), Codes("human_elements_age_groups"),
               Codes("human_elements_gender_distribution"),
               Codes("human_elements_ethnicity_diversity"),
               Codes("human_elements_interactions"), Codes("human_elements_emotions") >>],
       [name |-> "Environment",
         fields |->
            << Codes("environment_location_type"), Codes("environment_architecture_style"),
               Codes("environment_natural_elements"), Codes("environment_weather_conditions"),
               Codes("environment_lighting_conditions") >>],
       [name |-> "Key Objects",
         fields |->
            << Codes("key_objects_products"), Codes("key_objects_technology"),
               Codes("key_objects_furniture"), Codes("key_objects_vehicles"),
               Codes("key_objects_notable_items") >>],
       [name |-> "Atmospheric Elements",
         fields |->
            << Codes("atmospheric_elements_color_scheme"),
               Codes("atmospheric_elements_lighting_quality"),
               Codes("atmospheric_elements_visual_mood"),
               Codes("atmospheric_elements_energy_level"),
               Codes("atmospheric_elements_aesthetic_style") >>],
       [name |-> "Narrative Analysis",
         fields |->
            << Codes("narrative_analysis_story_elements"),
               Codes("narrative_analysis_cultural_context"),
               Codes("narrative_analysis_social_dynamics"),
               Codes("narrative_analysis_values_expressed"),
               Codes("narrative_analysis_lifestyle_indicators") >>],
       [name |-> "Photographic Elements",
         fields |->
            << Codes("photographic_elements_composition_style"),
               Codes("photographic_elements_camera_angle"),
               Codes("photographic_elements_depth_of_field"),
               Codes("photographic_elements_focus_points"),
               Codes("photographic_elements_technical_quality") >>],
       [name |-> "Marketing Potential",
         fields |->
            << Codes("marketing_potential_demographics"),
               Codes("marketing_potential_psychographics"),
               Codes("marketing_potential_brand_categories"),
               Codes("marketing_potential_emotional_appeal"),
               Codes("marketing_potential_commercial_viability") >>] >>

\* this.schemaCategoryMap[schemaType] || []
schemaCategoryMap(type) ==
    IF type = schemaTypes[2] THEN standardCategories \o lifestyleCategories
    ELSE IF type = schemaTypes[1] THEN standardCategories \o productCategories
    ELSE IF type = schemaTypes[3] THEN standardCategories \o orbitCategories
    ELSE <<>>

namespacePrefixes ==
    << Codes("lifestyle"), Codes("product"), Codes("orbit"), Codes("dublin_core"),
       Codes("iptc"), Codes("xmp_core"), Codes("photoshop"), Codes("processing") >>

\* key.replace(/^(lifestyle|product|orbit|dublin_core|iptc|xmp_core|photoshop|processing)_/, '')
removeNamespacePrefix(key) ==
    IF \E i \in 1..Len(namespacePrefixes) : startsWith(key, namespacePrefixes[i] \o <<Underscore>>)
    THEN LET i == CHOOSE j \in 1..Len(namespacePrefixes) :
                      /\ startsWith(key, namespacePrefixes[j] \o <<Underscore>>)
                      /\ \A k \in 1..(j - 1) :
                             ~startsWith(key, namespacePrefixes[k] \o <<Underscore>>)
         IN  substring(key, Len(namespacePrefixes[i]) + 1)
    ELSE key

\* lower.replace(/_/g, ' ').split(' ').filter(w => w.length > 2)
wordsOf(lower) ==
    LET spaced == [i \in 1..Len(lower) |-> IF lower[i] = Underscore THEN 32 ELSE lower[i]]
    IN  SelectSeq(split(Array(spaced), 32), LAMBDA w : Len(w) > 2)

fieldMatchesPattern(key, fieldPattern, type) ==
    LET keyLower == toLowerCase(key)
        patternLower == toLowerCase(fieldPattern)
        keyWithoutSchema == removeNamespacePrefix(key)
        categoryParts == split(fieldPattern, Underscore)
        lastPart == categoryParts[Len(categoryParts)]
        keyWords == wordsOf(keyLower)
        patternWords == wordsOf(patternLower)
        hasAllPatternWords ==
            /\ Len(patternWords) > 0
            /\ \A p \in 1..Len(patternWords) : \E k \in 1..Len(keyWords) :
                   \/ includes(keyWords[k], patternWords[p])
                   \/ includes(patternWords[p], keyWords[k])
    IN  \/ key = fieldPattern \/ keyLower = patternLower
        \/ keyWithoutSchema = fieldPattern
        \/ includes(keyWithoutSchema, fieldPattern)
        \/ includes(key, fieldPattern)
        \/ /\ Len(categoryParts) > 1
           /\ (keyWithoutSchema = lastPart \/ includes(keyLower, toLowerCase(lastPart)))
        \/ hasAllPatternWords
        \/ includes(keyLower, patternLower)
        \/ includes(patternLower, keyLower)

\* the key of the Ledger entry, 'Raw_JSON'
RawJsonKey == Codes("Raw_JSON")

\* a filter that does not skip the fields assigned already
matchingKeys_ignoreAssigned(schemaData, assignedFields, fieldPattern, type) ==
    SelectSeq(objectKeys(schemaData),
              LAMBDA key : /\ key # RawJsonKey
                           /\ fieldMatchesPattern(key, fieldPattern, type))

\* Object.keys(schemaData).filter(...): the keys a pattern claims
matchingKeys(schemaData, assignedFields, fieldPattern, type) ==
    SelectSeq(objectKeys(schemaData),
              LAMBDA key : /\ key # RawJsonKey
                           /\ key \notin assignedFields
                           /\ fieldMatchesPattern(key, fieldPattern, type))

\* matchingKeys.forEach: acc is [fields, assignedFields, totalFields]
RECURSIVE claimKeys(_, _, _)
claimKeys(acc, schemaData, keys) ==
    IF Len(keys) = 0 THEN acc
    ELSE claimKeys([fields |-> setField(acc.fields, getField(schemaData, Head(keys))),
                    assignedFields |-> acc.assignedFields \cup {Head(keys)},
                    totalFields |-> acc.totalFields + 1],
                   schemaData, Tail(keys))

\* for (const fieldPattern of category.fields), from pattern number p on
RECURSIVE patternLoop(_, _, _, _, _)
patternLoop(acc, schemaData, patterns, p, type) ==
    IF p > Len(patterns) THEN acc
    ELSE LET keys == matchingKeys(schemaData, acc.assignedFields, patterns[p], type)
         IN  IF Len(keys) = 0
             THEN patternLoop(acc, schemaData, patterns, p + 1, type)
             ELSE patternLoop(claimKeys(acc, schemaData, keys), schemaData, patterns, p + 1, type)

\* for (const category of categories), from category number c on:
\* acc is [categories, assignedFields, totalFields]
RECURSIVE categoryLoop(_, _, _, _, _)
categoryLoop(acc, schemaData, categories, c, type) ==
    IF c > Len(categories) THEN acc
    ELSE LET claimed == patternLoop([fields |-> <<>>,
                                     assignedFields |-> acc.assignedFields,
                                     totalFields |-> acc.totalFields],
                                    schemaData, categories[c].fields, 1, type)
         IN  IF Len(claimed.fields) > 0
             THEN categoryLoop([categories |->
                                    Append(acc.categories,
                                           [name |-> categories[c].name,
                                            fields |-> claimed.fields]),
                                assignedFields |-> claimed.assignedFields,
                                totalFields |-> claimed.totalFields],
                               schemaData, categories, c + 1, type)
             ELSE categoryLoop([categories |-> acc.categories,
                                assignedFields |-> claimed.assignedFields,
                                totalFields |-> claimed.totalFields],
                               schemaData, categories, c + 1, type)

\* the schema data: metadata[schemaType] when that is an object, else metadata
schemaDataOf(data, type) ==
    IF hasKey(data, type) /\ getField(data, type).isObject
    THEN getField(data, type).fields
    ELSE data

\* the keys no category claimed, Raw_JSON apart
unmatchedFieldsOf(schemaData, assignedFields) ==
    SelectSeq(schemaData,
              LAMBDA entry : entry.key \notin assignedFields /\ entry.key # RawJsonKey)

\* a variant: the catch-all category is put before the others
withUnmatched_first(matched, unmatchedFields) ==
    [categories |->
         IF Len(unmatchedFields) > 0
         THEN <<[name |-> "Additional Metadata", fields |-> unmatchedFields]>>
              \o matched.categories
         ELSE matched.categories,
     totalCategories |-> Len(matched.categories) + (IF Len(unmatchedFields) > 0 THEN 1 ELSE 0),
     totalFields |-> matched.totalFields + Len(unmatchedFields)]

\* the catch-all category is added when it has fields, and the result is returned
withUnmatched(matched, unmatchedFields) ==
    [categories |->
         IF Len(unmatchedFields) > 0
         THEN Append(matched.categories,
                     [name |-> "Additional Metadata", fields |-> unmatchedFields])
         ELSE matched.categories,
     totalCategories |-> Len(matched.categories) + (IF Len(unmatchedFields) > 0 THEN 1 ELSE 0),
     totalFields |-> matched.totalFields + Len(unmatchedFields)]

\* the result of the category loop, completed by the catch-all category
finishOrganizing(matched, schemaData) ==
    withUnmatched(matched, unmatchedFieldsOf(schemaData, matched.assignedFields))

organizeMetadataByCategories(data, type) ==
    finishOrganizing(
        categoryLoop([categories |-> <<>>, assignedFields |-> {}, totalFields |-> 0],
                     schemaDataOf(data, type), schemaCategoryMap(type), 1, type),
        schemaDataOf(data, type))

(***************************************************************************)
(* Field maps handed to the organizer: every map of at most MaxFields      *)
(* fields of a pool, flat or nested under a schema name.                   *)
(***************************************************************************)
MaxFields == 2

FieldPool ==
    << Codes("Raw_JSON"), Codes("lifestyle_scene_overview_setting"), Codes("Time Of Day"),
       Codes("dublin_core_title"), Codes("product_type"), Codes("custom_note"),
       Codes("lifestyle") >>

\* the entries of the pool whose numbers are in the set chosen, in pool order
PoolMap(chosen) ==
    LET picked == SelectSeq([i \in 1..Len(FieldPool) |-> i], LAMBDA i : i \in chosen)
    IN  [j \in 1..Len(picked) |-> StringEntry(FieldPool[picked[j]], Codes("value"))]

FlatMaps ==
    { Array(PoolMap(chosen)) :
        chosen \in { c \in SUBSET (1..Len(FieldPool)) : Cardinality(c) <= MaxFields } }

SchemaNames == { Codes("lifestyle"), Codes("product"), Codes("orbit") }

\* { lifestyle: { lifestyle_field: value } }
NestedMaps == { <<ObjectEntry(Codes("lifestyle"), inner)>> : inner \in FlatMaps }

FieldMaps == FlatMaps \cup NestedMaps

InitReport ==
    /\ pc = "start"
    /\ CodecIdle
    /\ CanonIdle
    /\ LedgerIdle
    /\ ToolIdle
    /\ metadata \in FieldMaps
    /\ schemaType \in SchemaNames
    /\ organized = [categories |-> <<>>, totalCategories |-> 0, totalFields |-> 0]

\* const { totalCategories, totalFields } = this.organizeMetadataByCategories(metadata, schemaType)
Organize ==
    /\ pc = "start"
    /\ organized' = organizeMetadataByCategories(metadata, schemaType)
    /\ pc' = "organized"
    /\ UNCHANGED <<metadata, schemaType, codecVars, canonVars, ledgerVars, toolVars>>

NextReport == Organize

SpecReport == InitReport /\ [][NextReport]_vars

(***************************************************************************)
(* Claims about the organizer                                              *)
(***************************************************************************)
RECURSIVE C7_Sum(_)
C7_Sum(counts) == IF Len(counts) = 0 THEN 0 ELSE Head(counts) + C7_Sum(Tail(counts))

C7_KeySet(category) == { category.fields[i].key : i \in 1..Len(category.fields) }

C7_Disjoint ==
    \A a, b \in 1..Len(organized.categories) :
        a # b => C7_KeySet(organized.categories[a]) \cap C7_KeySet(organized.categories[b]) = {}

C7_SumOfCounts ==
    C7_Sum([c \in 1..Len(organized.categories) |-> Len(organized.categories[c].fields)])

\* the map the organizer works on: metadata[schemaType] when that is an object
C7_OrganizedMap ==
    IF \E i \in 1..Len(metadata) : metadata[i].key = schemaType /\ metadata[i].isObject
    THEN (CHOOSE e \in { metadata[i] : i \in 1..Len(metadata) } : e.key = schemaType).fields
    ELSE metadata

\* C7 as stated: the categories are pairwise disjoint and totalFields = the sum
\* of the per-category counts = the number of distinct keys of the input map.
C7_ExclusiveComplete ==
    pc = "organized" =>
        /\ C7_Disjoint
        /\ organized.totalFields = C7_SumOfCounts
        /\ organized.totalFields = Cardinality({ metadata[i].key : i \in 1..Len(metadata) })

\* C7, amended: the categories are pairwise disjoint and totalFields = the sum
\* of the per-category counts = the number of keys other than Raw_JSON of the
\* map organized, which is metadata[schemaType] when that is an object and the
\* input map otherwise.
C7_ExclusiveCompleteAmended ==
    pc = "organized" =>
        /\ C7_Disjoint
        /\ organized.totalFields = C7_SumOfCounts
        /\ organized.totalFields =
               Cardinality({ C7_OrganizedMap[i].key : i \in 1..Len(C7_OrganizedMap) }
                               \ {Codes("Raw_JSON")})

C7_Witness ==
    /\ pc = "organized"
    /\ \E i \in 1..Len(metadata) : metadata[i].key = Codes("Raw_JSON")
    /\ organized.totalCategories = 1
    /\ organized.categories[1].name = "Additional Metadata"
    /\ organized.totalFields = 1


(***************************************************************************)
(* Values of the metadata tree and of the Ledger: strings, numbers (the    *)
(* integers), booleans, null, arrays and objects.  An object is the        *)
(* sequence of its properties in insertion order.                          *)
(***************************************************************************)
JsonString(text) == [t |-> "string", s |-> text, n |-> 0, items |-> <<>>]

JsonNumber(number) == [t |-> "number", s |-> <<>>, n |-> number, items |-> <<>>]

JsonBoolean(b) == [t |-> "boolean", s |-> <<>>, n |-> IF b THEN 1 ELSE 0, items |-> <<>>]

JsonNull == [t |-> "null", s |-> <<>>, n |-> 0, items |-> <<>>]

JsonUndefined == [t |-> "undefined", s |-> <<>>, n |-> 0, items |-> <<>>]

JsonArray(items) == [t |-> "array", s |-> <<>>, n |-> 0, items |-> items]

JsonObject(properties) == [t |-> "object", s |-> <<>>, n |-> 0, items |-> properties]

Property(key, value) == [k |-> key, v |-> value]

hasProperty(value, key) ==
    value.t = "object" /\ \E i \in 1..Len(value.items) : value.items[i].k = key

\* value.key and value?.key: undefined when the value has no such property
getProperty(value, key) ==
    IF hasProperty(value, key)
    THEN value.items[CHOOSE i \in 1..Len(value.items) : value.items[i].k = key].v
    ELSE JsonUndefined

\* properties[key] = value
setProperty(properties, key, value) ==
    IF \E i \in 1..Len(properties) : properties[i].k = key
    THEN Array([i \in 1..Len(properties) |->
                   IF properties[i].k = key THEN Property(key, value) ELSE properties[i]])
    ELSE Append(properties, Property(key, value))

\* Object.assign(target, source) on property lists
RECURSIVE assignProperties(_, _)
assignProperties(target, source) ==
    IF Len(source) = 0 THEN target
    ELSE assignProperties(setProperty(target, Head(source).k, Head(source).v), Tail(source))

\* the conversion of a value to a boolean
truthy(value) ==
    CASE value.t = "string" -> Len(value.s) > 0
      [] value.t = "number" -> value.n # 0
      [] value.t = "boolean" -> value.n = 1
      [] value.t \in {"array", "object"} -> TRUE
      [] OTHER -> FALSE

\* a || b
orElse(a, b) == IF truthy(a) THEN a ELSE b

\* the concatenation of the sequences of a sequence
RECURSIVE flatten(_)
flatten(pieces) ==
    IF Len(pieces) = 0 THEN <<>>
    ELSE IF Len(pieces) = 1 THEN pieces[1]
    ELSE flatten(SubSeq(pieces, 1, Len(pieces) \div 2))
             \o flatten(SubSeq(pieces, Len(pieces) \div 2 + 1, Len(pieces)))

\* parts.join(separator), for any number of parts
joinAll(parts, separator) ==
    flatten(Array([i \in 1..Len(parts) |-> IF i = 1 THEN parts[i] ELSE separator \o parts[i]]))

\* the decimal digits of a natural number
RECURSIVE digitsOf(_)
digitsOf(number) ==
    IF number < 10 THEN <<48 + number>>
    ELSE Append(digitsOf(number \div 10), 48 + (number % 10))

\* String(number)
numberToString(number) ==
    IF number < 0 THEN <<45>> \o digitsOf(0 - number) ELSE digitsOf(number)

ObjectObjectText == Codes("[object Object]")

TrueText == Codes("true")

FalseText == Codes("false")

NullText == Codes("null")

UndefinedText == Codes("undefined")

\* String(value) and the interpolation of a value in a template
RECURSIVE toStringValue(_)
toStringValue(value) ==
    CASE value.t = "string" -> value.s
      [] value.t = "number" -> numberToString(value.n)
      [] value.t = "boolean" -> IF value.n = 1 THEN TrueText ELSE FalseText
      [] value.t = "null" -> NullText
      [] value.t = "undefined" -> UndefinedText
      [] value.t = "object" -> ObjectObjectText
      [] value.t = "array" ->
             joinAll([i \in 1..Len(value.items) |->
                         IF value.items[i].t \in {"null", "undefined"} THEN <<>>
                         ELSE toStringValue(value.items[i])], <<Comma>>)

\* value.join(', ') of an array
joinArray(items, separator) ==
    joinAll([i \in 1..Len(items) |->
                IF items[i].t \in {"null", "undefined"} THEN <<>>
                ELSE toStringValue(items[i])], separator)

CommaSpace == <<Comma, 32>>

(***************************************************************************)
(* flattenMetadata                                                         *)
(***************************************************************************)
\* prefix ? `${prefix}_${key}` : key
fullKeyOf(prefix, key) == IF Len(prefix) > 0 THEN prefix \o <<Underscore>> \o key ELSE key

\* flattenMetadata, from property number i of the object on: flattened holds
\* the properties [k, v] written so far, v a string
RECURSIVE flattenFrom(_, _, _, _)
flattenFrom(flattened, properties, i, prefix) ==
    IF i > Len(properties) THEN flattened
    ELSE IF properties[i].v.t \in {"null", "undefined"}
    THEN flattenFrom(flattened, properties, i + 1, prefix)
    ELSE IF properties[i].v.t = "object"
    THEN flattenFrom(assignProperties(flattened,
                                      flattenFrom(<<>>, properties[i].v.items, 1,
                                                  fullKeyOf(prefix, properties[i].k))),
                     properties, i + 1, prefix)
    ELSE IF properties[i].v.t = "array"
    THEN flattenFrom(setProperty(flattened, fullKeyOf(prefix, properties[i].k),
                                 joinArray(properties[i].v.items, CommaSpace)),
                     properties, i + 1, prefix)
    ELSE flattenFrom(setProperty(flattened, fullKeyOf(prefix, properties[i].k),
                                 toStringValue(properties[i].v)),
                     properties, i + 1, prefix)

flattenMetadata(value, prefix) == flattenFrom(<<>>, value.items, 1, prefix)

(***************************************************************************)
(* JSON.stringify(value, null, 2)                                          *)
(***************************************************************************)
HexDigits == Codes("0123456789abcdef")

\* \uXXXX with lower-case digits
unicodeEscape(c) ==
    <<92, 117, HexDigits[((c \div 4096) % 16) + 1], HexDigits[((c \div 256) % 16) + 1],
      HexDigits[((c \div 16) % 16) + 1], HexDigits[(c % 16) + 1]>>

\* one code unit of a string, as JSON.stringify writes it; a surrogate that
\* has no partner is written as an escape
quoteUnit(text, i) ==
    LET c == text[i]
    IN  CASE c = 34 -> <<92, 34>>
          [] c = 92 -> <<92, 92>>
          [] c = 8 -> <<92, 98>>
          [] c = 9 -> <<92, 116>>
          [] c = 10 -> <<92, 110>>
          [] c = 12 -> <<92, 102>>
          [] c = 13 -> <<92, 114>>
          [] c < 32 -> unicodeEscape(c)
          [] IsHighSurrogate(c) /\ ~(i < Len(text) /\ IsLowSurrogate(text[i + 1])) ->
                 unicodeEscape(c)
          [] IsLowSurrogate(c) /\ ~(i > 1 /\ IsHighSurrogate(text[i - 1])) ->
                 unicodeEscape(c)
          [] OTHER -> <<c>>

\* a string as a JSON string literal
quote(text) ==
    <<34>> \o flatten(Array([i \in 1..Len(text) |-> quoteUnit(text, i)])) \o <<34>>

Spaces(n) == Array([i \in 1..n |-> 32])

NL == <<10>>

\* the properties JSON.stringify writes: those whose value is not undefined
definedProperties(properties) == SelectSeq(properties, LAMBDA p : p.v.t # "undefined")

\* JSON.stringify(value, null, 2) of a value at the indentation given
RECURSIVE stringify(_, _)
stringify(value, indent) ==
    CASE value.t = "string" -> quote(value.s)
      [] value.t = "number" -> numberToString(value.n)
      [] value.t = "boolean" -> IF value.n = 1 THEN TrueText ELSE FalseText
      [] value.t \in {"null", "undefined"} -> NullText
      [] value.t = "array" ->
             IF Len(value.items) = 0 THEN <<91, 93>>
             ELSE <<91>> \o NL
                  \o joinAll([i \in 1..Len(value.items) |->
                                 Spaces(indent + 2) \o stringify(value.items[i], indent + 2)],
                             <<Comma>> \o NL)
                  \o NL \o Spaces(indent) \o <<93>>
      [] value.t = "object" ->
             IF Len(definedProperties(value.items)) = 0 THEN <<123, 125>>
             ELSE <<123>> \o NL
                  \o joinAll([i \in 1..Len(definedProperties(value.items)) |->
                                 Spaces(indent + 2)
                                 \o quote(definedProperties(value.items)[i].k) \o <<58, 32>>
                                 \o stringify(definedProperties(value.items)[i].v, indent + 2)],
                             <<Comma>> \o NL)
                  \o NL \o Spaces(indent) \o <<125>>

(***************************************************************************)
(* escapeXML and unescapeXML                                               *)
(***************************************************************************)
\* text.replace(/c/g, replacement) for a single character c
replaceChar(text, c, replacement) ==
    flatten(Array([i \in 1..Len(text) |-> IF text[i] = c THEN replacement ELSE <<text[i]>>]))

AmpEntity == Codes("&amp;")

LtEntity == Codes("&lt;")

GtEntity == Codes("&gt;")

QuotEntity == Codes("&quot;")

AposEntity == Codes("&apos;")

escapeXML(text) ==
    replaceChar(replaceChar(replaceChar(replaceChar(replaceChar(
        text, 38, AmpEntity), 60, LtEntity), 62, GtEntity), 34, QuotEntity), 39, AposEntity)

\* whether search occurs in text at position i (1-based)
occursAt(text, search, i) ==
    /\ i + Len(search) - 1 <= Len(text)
    /\ text[i] = search[1]
    /\ SubSeq(text, i, i + Len(search) - 1) = search

\* text.replace(/search/g, replacement) for an entity, which is an ampersand,
\* letters and a semicolon, so that two occurrences never overlap
replaceEntity(text, search, replacement) ==
    flatten(Array([i \in 1..Len(text) |->
        IF occursAt(text, search, i) THEN replacement
        ELSE IF \E j \in Max(1, i - Len(search) + 1)..(i - 1) : occursAt(text, search, j)
        THEN <<>>
        ELSE <<text[i]>>]))

\* an unescapeXML that replaces &amp; last
unescapeXML_ampLast(text) ==
    replaceEntity(replaceEntity(replaceEntity(replaceEntity(replaceEntity(
        text, LtEntity, <<60>>), GtEntity, <<62>>), QuotEntity, <<34>>), AposEntity, <<39>>),
        AmpEntity, <<38>>)

unescapeXML(text) ==
    replaceEntity(replaceEntity(replaceEntity(replaceEntity(replaceEntity(
        text, AmpEntity, <<38>>), LtEntity, <<60>>), GtEntity, <<62>>), QuotEntity, <<34>>),
        AposEntity, <<39>>)


(***************************************************************************)
(* The standard-namespace mappings of the serializer.  A method call on a  *)
(* value that has no such method (toLowerCase on a number or a list,       *)
(* includes on a number) throws; the ...Throws predicates say when.        *)
(***************************************************************************)
\* metadata.section?.key || metadata.key
fieldOf(data, section, key) ==
    orElse(getProperty(getProperty(data, Codes(section)), Codes(key)),
           getProperty(data, Codes(key)))

settingOf(data) == fieldOf(data, "scene_overview", "setting")

activityOf(data) == fieldOf(data, "scene_overview", "primary_activity")

timeOfDayOf(data) == fieldOf(data, "scene_overview", "time_of_day")

numPeopleOf(data) == fieldOf(data, "human_elements", "number_of_people")

moodOf(data) == fieldOf(data, "atmospheric_elements", "mood")

foodBevOf(data) == fieldOf(data, "key_objects", "food_and_beverage")

furnitureOf(data) == fieldOf(data, "key_objects", "furniture")

locationOf(data) == fieldOf(data, "environment", "location_type")

demographicsOf(data) == fieldOf(data, "human_elements", "demographics")

marketingHooksOf(data) == fieldOf(data, "marketing_potential", "emotional_hooks")

targetDemoOf(data) == fieldOf(data, "marketing_potential", "target_demographic")

\* a truthy value that is not a string: toLowerCase() on it throws
notAString(value) == truthy(value) /\ value.t # "string"

\* parseArrayValue for a value of any kind: the items, as strings
parseArrayValueOf(value) ==
    IF value.t = "array"
    THEN Array([i \in 1..Len(value.items) |-> toStringValue(value.items[i])])
    ELSE IF value.t = "string" THEN parseArrayValue(value.s)
    ELSE <<toStringValue(value)>>

generateSceneDescriptionThrows(data) ==
    \/ /\ truthy(settingOf(data)) /\ truthy(activityOf(data))
       /\ (activityOf(data).t # "string" \/ settingOf(data).t # "string")
    \/ notAString(timeOfDayOf(data))
    \/ notAString(moodOf(data))

sceneParts(data) ==
    (IF truthy(settingOf(data)) /\ truthy(activityOf(data))
     THEN <<Codes("A scene of ") \o toLowerCase(activityOf(data).s) \o Codes(" in ")
              \o toLowerCase(settingOf(data).s)>>
     ELSE <<>>)
    \o (IF truthy(numPeopleOf(data))
        THEN <<Codes("featuring ") \o toStringValue(numPeopleOf(data)) \o Codes(" people")>>
        ELSE <<>>)
    \o (IF truthy(timeOfDayOf(data))
        THEN <<Codes("during ") \o toLowerCase(timeOfDayOf(data).s)>>
        ELSE <<>>)
    \o (IF truthy(moodOf(data))
        THEN <<Codes("with a ") \o toLowerCase(moodOf(data).s) \o Codes(" atmosphere")>>
        ELSE <<>>)

generateSceneDescription(data) ==
    IF Len(sceneParts(data)) > 0 THEN joinAll(sceneParts(data), <<32>>) \o <<46>> ELSE <<>>

extractKeywordsThrows(data) == notAString(activityOf(data)) \/ notAString(locationOf(data))

\* the items of a list in lower case
lowerItems(items) == Array([i \in 1..Len(items) |-> toLowerCase(items[i])])

\* [...new Set(keywords)]: the first occurrence of each keyword
distinctItems(items) ==
    SelectSeq([i \in 1..Len(items) |->
                  IF \E j \in 1..(i - 1) : items[j] = items[i] THEN <<-1>> ELSE items[i]],
              LAMBDA item : item # <<-1>>)

allKeywords(data) ==
    (IF truthy(foodBevOf(data)) THEN lowerItems(parseArrayValueOf(foodBevOf(data))) ELSE <<>>)
    \o (IF truthy(furnitureOf(data)) THEN lowerItems(parseArrayValueOf(furnitureOf(data)))
        ELSE <<>>)
    \o (IF truthy(activityOf(data)) THEN <<toLowerCase(activityOf(data).s)>> ELSE <<>>)
    \o (IF truthy(locationOf(data)) THEN <<toLowerCase(locationOf(data).s)>> ELSE <<>>)

extractKeywords(data) ==
    SubSeq(distinctItems(allKeywords(data)), 1, Min(10, Len(distinctItems(allKeywords(data)))))

\* a list of strings as an array value
stringArray(items) == JsonArray(Array([i \in 1..Len(items) |-> JsonString(items[i])]))

mapToDublinCoreThrows(data) == generateSceneDescriptionThrows(data) \/ extractKeywordsThrows(data)

mapToDublinCore(data) ==
    (IF truthy(settingOf(data)) /\ truthy(activityOf(data))
     THEN <<Property(Codes("title"),
                     JsonString(toStringValue(settingOf(data)) \o Codes(" - ")
                                    \o toStringValue(activityOf(data))))>>
     ELSE IF truthy(settingOf(data)) THEN <<Property(Codes("title"), settingOf(data))>>
     ELSE <<>>)
    \o (IF Len(generateSceneDescription(data)) > 0
        THEN <<Property(Codes("description"), JsonString(generateSceneDescription(data)))>>
        ELSE <<>>)
    \o (IF Len(extractKeywords(data)) > 0
        THEN <<Property(Codes("subject"), stringArray(extractKeywords(data)))>>
        ELSE <<>>)
    \o <<Property(Codes("creator"), JsonString(Codes("ORBIT AI Analysis System")))>>

OrganisationWords == <<Codes("restaurant"), Codes("bar"), Codes("cafe")>>

\* locationText.includes(word) for one of the three words: a substring of a
\* string, an element of a list
namesOrganisation(locationText) ==
    \E w \in 1..Len(OrganisationWords) :
        IF locationText.t = "string" THEN includes(locationText.s, OrganisationWords[w])
        ELSE \E i \in 1..Len(locationText.items) :
                 locationText.items[i] = JsonString(OrganisationWords[w])

mapToIPTCThrows(data) ==
    /\ truthy(locationOf(data))
    /\ \/ locationOf(data).t \notin {"string", "array"}
       \/ locationOf(data).t = "array" /\ namesOrganisation(locationOf(data))

mapToIPTC(data) ==
    (IF truthy(demographicsOf(data)) /\ Len(parseArrayValueOf(demographicsOf(data))) > 0
     THEN <<Property(Codes("PersonInImage"), stringArray(parseArrayValueOf(demographicsOf(data))))>>
     ELSE <<>>)
    \o (IF truthy(locationOf(data)) /\ namesOrganisation(locationOf(data))
        THEN <<Property(Codes("OrganisationInImageName"),
                        stringArray(<<Codes("Unidentified ")
                                        \o toLowerCase(locationOf(data).s)>>))>>
        ELSE <<>>)

\* mapToXMPCore, given what its two calls of new Date().toISOString() return
mapToXMPCoreAt(createDate, metadataDate) ==
    << Property(Codes("CreatorTool"), JsonString(Codes("ORBIT Metadata MCP v2.1"))),
       Property(Codes("CreateDate"), JsonString(createDate)),
       Property(Codes("MetadataDate"), JsonString(metadataDate)) >>

\* new Date().toISOString() while the clock stands still
Timestamp == Codes("2025-01-01T00:00:00.000Z")

\* mapToXMPCore while the clock stands still
mapToXMPCore == mapToXMPCoreAt(Timestamp, Timestamp)

mapToPhotoshop(data) ==
    (IF truthy(marketingHooksOf(data)) \/ truthy(targetDemoOf(data))
     THEN <<Property(Codes("Instructions"),
                     JsonString(Codes("AI-analyzed image suitable for")
                         \o (IF truthy(targetDemoOf(data))
                             THEN <<32>> \o toStringValue(targetDemoOf(data))
                                      \o Codes(" marketing")
                             ELSE <<>>)
                         \o (IF truthy(marketingHooksOf(data))
                             THEN Codes(". Emotional themes: ")
                                      \o toStringValue(marketingHooksOf(data))
                             ELSE <<>>)))>>
     ELSE <<>>)
    \o << Property(Codes("Source"), JsonString(Codes("AI-generated metadata analysis"))),
          Property(Codes("ColorMode"), JsonString(Codes("3"))) >>

\* a variant: the instant is written as the version, too
processingInfoAt_versionStamped(type, timestamp) ==
    << Property(Codes("processed_timestamp"), JsonString(timestamp)),
       Property(Codes("processor_version"), JsonString(timestamp)),
       Property(Codes("schema_type"), JsonString(type)),
       Property(Codes("processor_location"), JsonString(Codes("local_memory_stream"))) >>

\* processingInfo, given what new Date().toISOString() returns
processingInfoAt(type, timestamp) ==
    << Property(Codes("processed_timestamp"), JsonString(timestamp)),
       Property(Codes("processor_version"), JsonString(Codes("1.0.0"))),
       Property(Codes("schema_type"), JsonString(type)),
       Property(Codes("processor_location"), JsonString(Codes("local_memory_stream"))) >>

\* processingInfo while the clock stands still
processingInfoOf(type) == processingInfoAt(type, Timestamp)

(***************************************************************************)
(* The blocks of the packet                                                *)
(***************************************************************************)
NAMESPACES ==
    JsonObject(
    << Property(Codes("dc"), JsonString(Codes("http://purl.org/dc/elements/1.1/"))),
       Property(Codes("iptc"), JsonString(Codes("http://iptc.org/std/Iptc4xmpExt/2008-02-29/"))),
       Property(Codes("xmp"), JsonString(Codes("http://ns.adobe.com/xap/1.0/"))),
       Property(Codes("photoshop"), JsonString(Codes("http://ns.adobe.com/photoshop/1.0/"))),
       Property(Codes("xmpRights"), JsonString(Codes("http://ns.adobe.com/xap/1.0/rights/"))),
       Property(Codes("exif"), JsonString(Codes("http://ns.adobe.com/exif/1.0/"))),
       Property(Codes("lifestyle"), JsonString(Codes("http://orbit.com/lifestyle/1.0/"))),
       Property(Codes("product"), JsonString(Codes("http://orbit.com/product/1.0/"))),
       Property(Codes("orbit"), JsonString(Codes("http://orbit.com/orbit/1.0/"))),
       Property(Codes("processing"), JsonString(Codes("http://orbit.com/processing/1.0/"))) >>)

DcPrefix == Codes("dc")

IptcPrefix == Codes("iptc")

IptcTag == Codes("Iptc4xmpExt")

XmpPrefix == Codes("xmp")

PhotoshopPrefix == Codes("photoshop")

ProcessingPrefix == Codes("processing")

LiOpen == Codes("<rdf:li>")

LiClose == Codes("</rdf:li>")

SeqOpen == Codes("<rdf:Seq>")

SeqClose == Codes("</rdf:Seq>")

BagOpen == Codes("<rdf:Bag>")

BagClose == Codes("</rdf:Bag>")

AltOpen == Codes("<rdf:Alt>")

AltClose == Codes("</rdf:Alt>")

AltLiOpen == Codes("<rdf:li xml:lang='x-default'>")

\* the lines of the items of a container, joined by line feeds
listItems(items) ==
    joinAll(Array([i \in 1..Len(items) |->
                      Spaces(8) \o LiOpen \o escapeXML(items[i]) \o LiClose]), NL)

generateRDFSeq(items) ==
    IF Len(items) = 0 THEN <<>>
    ELSE NL \o Spaces(6) \o SeqOpen \o NL \o listItems(items) \o NL
         \o Spaces(6) \o SeqClose \o NL \o Spaces(4)

generateRDFBag(items) ==
    IF Len(items) = 0 THEN <<>>
    ELSE NL \o Spaces(6) \o BagOpen \o NL \o listItems(items) \o NL
         \o Spaces(6) \o BagClose \o NL \o Spaces(4)

generateSemanticRDFContainer(items, fieldName, originalKey) ==
    IF Len(items) = 0 THEN <<>>
    ELSE IF getSemanticContainerType(fieldName, originalKey, items) = "seq"
    THEN generateRDFSeq(items)
    ELSE generateRDFBag(items)

generateRDFAlt(value) ==
    NL \o Spaces(6) \o AltOpen \o NL \o Spaces(8) \o AltLiOpen \o escapeXML(value) \o LiClose
    \o NL \o Spaces(6) \o AltClose \o NL \o Spaces(4)

\* the line of one element: <prefix:name>content</prefix:name>
elementLine(prefix, name, content) ==
    Spaces(10) \o <<60>> \o prefix \o <<58>> \o name \o <<62>> \o content
    \o <<60, 47>> \o prefix \o <<58>> \o name \o <<62>> \o NL

DescriptionOpen == Codes("<rdf:Description rdf:about=\"\"")

DescriptionClose == Codes("</rdf:Description>")

XmlnsText == Codes("xmlns:")

\* the rdf:Description that declares the namespace of its elements
descriptionBlock(tag, namespace, fields) ==
    Spaces(8) \o DescriptionOpen \o NL
    \o Spaces(10) \o XmlnsText \o tag \o <<61, 34>> \o namespace \o <<34, 62>> \o NL
    \o fields \o Spaces(8) \o DescriptionClose

TitleKey == Codes("title")

DescriptionKey == Codes("description")

SubjectKey == Codes("subject")

\* the strings of an array of strings
itemTexts(value) == Array([i \in 1..Len(value.items) |-> toStringValue(value.items[i])])

dublinCoreField(p) ==
    IF p.k = TitleKey \/ p.k = DescriptionKey
    THEN elementLine(DcPrefix, p.k, generateRDFAlt(toStringValue(p.v)))
    ELSE IF p.k = SubjectKey /\ p.v.t = "array"
    THEN elementLine(DcPrefix, p.k, generateRDFBag(itemTexts(p.v)))
    ELSE elementLine(DcPrefix, p.k, escapeXML(toStringValue(p.v)))

generateDublinCoreBlock(dcFields) ==
    descriptionBlock(DcPrefix, toStringValue(getProperty(NAMESPACES, DcPrefix)),
        flatten(Array([i \in 1..Len(dcFields) |-> dublinCoreField(dcFields[i])])))

iptcField(p) ==
    IF p.v.t = "array"
    THEN elementLine(IptcTag, p.k, generateSemanticRDFContainer(itemTexts(p.v), p.k, <<>>))
    ELSE elementLine(IptcTag, p.k, escapeXML(toStringValue(p.v)))

generateIPTCBlock(iptcFields) ==
    descriptionBlock(IptcTag, toStringValue(getProperty(NAMESPACES, IptcPrefix)),
        flatten(Array([i \in 1..Len(iptcFields) |-> iptcField(iptcFields[i])])))

generateXMPCoreBlock(xmpFields) ==
    descriptionBlock(XmpPrefix, toStringValue(getProperty(NAMESPACES, XmpPrefix)),
        flatten(Array([i \in 1..Len(xmpFields) |->
            elementLine(XmpPrefix, xmpFields[i].k, escapeXML(toStringValue(xmpFields[i].v)))])))

generatePhotoshopBlock(psFields) ==
    descriptionBlock(PhotoshopPrefix, toStringValue(getProperty(NAMESPACES, PhotoshopPrefix)),
        flatten(Array([i \in 1..Len(psFields) |->
            elementLine(PhotoshopPrefix, psFields[i].k,
                        escapeXML(toStringValue(psFields[i].v)))])))

\* beautifiedName.replace(/\s+/g, '_') of the beautified key
fieldNameOf(key) == replaceWhiteSpaceRuns(beautifyFieldName(key))

\* the element of one flattened field, given its items
customElement(prefix, key, value, fieldName, arrayValues) ==
    IF Len(arrayValues) > 1
    THEN elementLine(prefix, fieldName,
                     generateSemanticRDFContainer(arrayValues, fieldName, key))
    ELSE elementLine(prefix, fieldName, escapeXML(value))

customField(prefix, p) == customElement(prefix, p.k, p.v, fieldNameOf(p.k), parseArrayValue(p.v))

\* beautifiedFields of generateCompleteRawJSON, from field number i on
RECURSIVE beautifiedFrom(_, _, _)
beautifiedFrom(beautifiedFields, flattenedMetadata, i) ==
    IF i > Len(flattenedMetadata) THEN beautifiedFields
    ELSE beautifiedFrom(
             setProperty(beautifiedFields, fieldNameOf(flattenedMetadata[i].k),
                 IF Len(parseArrayValue(flattenedMetadata[i].v)) > 1
                 THEN stringArray(parseArrayValue(flattenedMetadata[i].v))
                 ELSE JsonString(flattenedMetadata[i].v)),
             flattenedMetadata, i + 1)

OriginalMetadataKey == Codes("original_metadata")

FlattenedFieldsKey == Codes("flattened_fields")

StandardMetadataKey == Codes("standard_metadata")

ProcessingKey == Codes("processing")

\* The calls of new Date().toISOString() of one createXMPPacket, in the
\* order they are made: clock[1] in createXMPPacket, clock[2] and clock[3]
\* in the mapToXMPCore of generateXMPContent, clock[4] and clock[5] in the
\* mapToXMPCore of generateCompleteRawJSON, clock[6] in its processingInfo.
StillClock == <<Timestamp, Timestamp, Timestamp, Timestamp, Timestamp, Timestamp>>

generateCompleteRawJSONAt(flattenedMetadata, type, originalMetadata, clock) ==
    JsonObject(
    << Property(OriginalMetadataKey, originalMetadata),
       Property(FlattenedFieldsKey, JsonObject(beautifiedFrom(<<>>, flattenedMetadata, 1))),
       Property(StandardMetadataKey, JsonObject(
           << Property(Codes("dublin_core"), JsonObject(mapToDublinCore(originalMetadata))),
              Property(Codes("iptc"), JsonObject(mapToIPTC(originalMetadata))),
              Property(Codes("xmp_core"), JsonObject(mapToXMPCoreAt(clock[4], clock[5]))),
              Property(Codes("photoshop"), JsonObject(mapToPhotoshop(originalMetadata))) >>)),
       Property(ProcessingKey, JsonObject(processingInfoAt(type, clock[6]))) >>)

generateCompleteRawJSON(flattenedMetadata, type, originalMetadata) ==
    generateCompleteRawJSONAt(flattenedMetadata, type, originalMetadata, StillClock)

\* the Raw_JSON element, written when there is an original metadata object
rawJsonFieldAt(flattenedMetadata, type, originalMetadata, clock) ==
    IF truthy(originalMetadata)
    THEN elementLine(type, RawJsonKey,
             escapeXML(stringify(generateCompleteRawJSONAt(flattenedMetadata, type,
                                                           originalMetadata, clock), 0)))
    ELSE <<>>

rawJsonField(flattenedMetadata, type, originalMetadata) ==
    rawJsonFieldAt(flattenedMetadata, type, originalMetadata, StillClock)

generateCustomORBITBlockAt(flattenedMetadata, type, originalMetadata, clock) ==
    descriptionBlock(type, toStringValue(getProperty(NAMESPACES, type)),
        flatten(Array([i \in 1..Len(flattenedMetadata) |->
                          customField(type, flattenedMetadata[i])]))
        \o rawJsonFieldAt(flattenedMetadata, type, originalMetadata, clock))

generateCustomORBITBlock(flattenedMetadata, type, originalMetadata) ==
    generateCustomORBITBlockAt(flattenedMetadata, type, originalMetadata, StillClock)

generateProcessingBlock(processingInfo) ==
    descriptionBlock(ProcessingPrefix, toStringValue(getProperty(NAMESPACES, ProcessingPrefix)),
        flatten(Array([i \in 1..Len(processingInfo) |->
            elementLine(ProcessingPrefix, fieldNameOf(processingInfo[i].k),
                        escapeXML(toStringValue(processingInfo[i].v)))])))

\* the blocks of a packet, those without fields left out
\* a variant: the processing block is pushed before the schema-specific one
blocksOfAt_processingFirst(flattenedMetadata, type, processingInfo, originalMetadata, clock) ==
    <<generateDublinCoreBlock(mapToDublinCore(originalMetadata))>>
    \o (IF Len(mapToIPTC(originalMetadata)) > 0
        THEN <<generateIPTCBlock(mapToIPTC(originalMetadata))>> ELSE <<>>)
    \o <<generateXMPCoreBlock(mapToXMPCoreAt(clock[2], clock[3]))>>
    \o <<generatePhotoshopBlock(mapToPhotoshop(originalMetadata))>>
    \o (IF Len(processingInfo) > 0 THEN <<generateProcessingBlock(processingInfo)>> ELSE <<>>)
    \o <<generateCustomORBITBlockAt(flattenedMetadata, type, originalMetadata, clock)>>

blocksOfAt(flattenedMetadata, type, processingInfo, originalMetadata, clock) ==
    (IF Len(mapToDublinCore(originalMetadata)) > 0
     THEN <<generateDublinCoreBlock(mapToDublinCore(originalMetadata))>> ELSE <<>>)
    \o (IF Len(mapToIPTC(originalMetadata)) > 0
        THEN <<generateIPTCBlock(mapToIPTC(originalMetadata))>> ELSE <<>>)
    \o (IF Len(mapToXMPCoreAt(clock[2], clock[3])) > 0
        THEN <<generateXMPCoreBlock(mapToXMPCoreAt(clock[2], clock[3]))>> ELSE <<>>)
    \o (IF Len(mapToPhotoshop(originalMetadata)) > 0
        THEN <<generatePhotoshopBlock(mapToPhotoshop(originalMetadata))>> ELSE <<>>)
    \o <<generateCustomORBITBlockAt(flattenedMetadata, type, originalMetadata, clock)>>
    \o (IF Len(processingInfo) > 0 THEN <<generateProcessingBlock(processingInfo)>> ELSE <<>>)

blocksOf(flattenedMetadata, type, processingInfo, originalMetadata) ==
    blocksOfAt(flattenedMetadata, type, processingInfo, originalMetadata, StillClock)

generateXMPContentAt(flattenedMetadata, type, processingInfo, originalMetadata, clock) ==
    joinAll(blocksOfAt(flattenedMetadata, type, processingInfo, originalMetadata, clock),
            NL \o NL)

generateXMPContent(flattenedMetadata, type, processingInfo, originalMetadata) ==
    generateXMPContentAt(flattenedMetadata, type, processingInfo, originalMetadata, StillClock)

PacketBegin == Codes("<?xpacket begin=\"") \o <<65279>> \o Codes("\" id=\"W5M0MpCehiHzreSzNTczkc9d\"?>")

XmpMetaOpen == Codes("<x:xmpmeta xmlns:x=\"adobe:ns:meta/\" x:xmptk=\"ORBIT Metadata MCP v2.1\">")

RdfOpen == Codes("<rdf:RDF xmlns:rdf=\"http://www.w3.org/1999/02/22-rdf-syntax-ns#\">")

RdfClose == Codes("</rdf:RDF>")

XmpMetaClose == Codes("</x:xmpmeta>")

PacketEnd == Codes("<?xpacket end=\"w\"?>")

\* wrapXMPContent with prettyPrint, as every caller asks
wrapXMPContent(content) ==
    PacketBegin \o NL \o Spaces(4) \o XmpMetaOpen \o NL \o Spaces(6) \o RdfOpen
    \o NL \o Spaces(6) \o content \o NL \o Spaces(4)
    \o NL \o Spaces(6) \o RdfClose \o NL \o Spaces(4) \o XmpMetaClose
    \o NL \o Spaces(4) \o PacketEnd

\* whether createXMPPacket ends in a TypeError
createXMPPacketThrows(data) == mapToDublinCoreThrows(data) \/ mapToIPTCThrows(data)

\* createXMPPacket with the options of its callers, given what its calls
\* of new Date().toISOString() return: the packet, or the exception
createXMPPacketAt(data, type, clock) ==
    IF createXMPPacketThrows(data) THEN [threw |-> TRUE, xmp_content |-> <<>>]
    ELSE [threw |-> FALSE,
          xmp_content |->
              wrapXMPContent(generateXMPContentAt(flattenMetadata(data, type), type,
                                                  processingInfoAt(type, clock[1]),
                                                  data, clock))]

\* createXMPPacket while the clock stands still
createXMPPacket(data, type) == createXMPPacketAt(data, type, StillClock)

(***************************************************************************)
(* JSON.parse.  A parse step returns [ok, value, next]: whether the text   *)
(* from a position on starts with a value, the value, and the position     *)
(* after it.  The numbers of the trees are integers, and so are the number *)
(* tokens of the texts written from them.                                  *)
(***************************************************************************)
ParseError == [ok |-> FALSE, value |-> JsonUndefined, next |-> 0]

Parsed(value, next) == [ok |-> TRUE, value |-> value, next |-> next]

\* the white space of the JSON grammar
isJsonWhiteSpace(c) == c \in {9, 10, 13, 32}

\* the first position from i on that holds no white space
RECURSIVE skipWhiteSpace(_, _)
skipWhiteSpace(text, i) ==
    IF i <= Len(text) /\ isJsonWhiteSpace(text[i]) THEN skipWhiteSpace(text, i + 1) ELSE i

isDigit(c) == c >= 48 /\ c <= 57

isHexDigit(c) == isDigit(c) \/ (c >= 97 /\ c <= 102) \/ (c >= 65 /\ c <= 70)

hexValue(c) == IF isDigit(c) THEN c - 48 ELSE IF c >= 97 THEN c - 87 ELSE c - 55

\* the character an escape letter stands for, 0 when it is none
escapedChar(c) ==
    CASE c = 34 -> 34
      [] c = 92 -> 92
      [] c = 47 -> 47
      [] c = 98 -> 8
      [] c = 102 -> 12
      [] c = 110 -> 10
      [] c = 114 -> 13
      [] c = 116 -> 9
      [] OTHER -> 0

\* the number of backslashes that end at position i, none before low
RECURSIVE backslashesUpTo(_, _, _)
backslashesUpTo(text, i, low) ==
    IF i >= low /\ text[i] = 92 THEN 1 + backslashesUpTo(text, i - 1, low) ELSE 0

\* the first quote from position i on, 0 when there is none
nextQuote(text, i) ==
    IF \E j \in i..Len(text) : text[j] = 34
    THEN CHOOSE j \in i..Len(text) : text[j] = 34 /\ \A k \in i..(j - 1) : text[k] # 34
    ELSE 0

\* the quote that closes the string literal whose characters start at
\* position low: the first one from i on that no backslash escapes
RECURSIVE closingQuote(_, _, _)
closingQuote(text, i, low) ==
    IF nextQuote(text, i) = 0 THEN 0
    ELSE IF backslashesUpTo(text, nextQuote(text, i) - 1, low) % 2 = 1
    THEN closingQuote(text, nextQuote(text, i) + 1, low)
    ELSE nextQuote(text, i)

\* whether position i of a string literal that starts at low is the
\* backslash of an escape
startsEscape(text, i, low) ==
    i >= low /\ text[i] = 92 /\ backslashesUpTo(text, i - 1, low) % 2 = 0

\* whether position i belongs to an escape that starts before it
continuesEscape(text, i, low) ==
    \/ startsEscape(text, i - 1, low)
    \/ \E j \in 2..5 : startsEscape(text, i - j, low) /\ text[i - j + 1] = 117

\* whether the escape that starts at position i is one of the grammar
validEscape(text, i, end) ==
    \/ i + 1 < end /\ escapedChar(text[i + 1]) # 0
    \/ /\ i + 5 < end
       /\ text[i + 1] = 117
       /\ \A j \in (i + 2)..(i + 5) : isHexDigit(text[j])

\* the character the escape that starts at position i stands for
escapeValue(text, i) ==
    IF text[i + 1] = 117
    THEN (hexValue(text[i + 2]) * 4096) + (hexValue(text[i + 3]) * 256)
         + (hexValue(text[i + 4]) * 16) + hexValue(text[i + 5])
    ELSE escapedChar(text[i + 1])

\* the characters of the string literal between the positions low and end
stringChars(text, low, end) ==
    flatten(Array([k \in 1..(end - low) |->
        IF startsEscape(text, low + k - 1, low) THEN <<escapeValue(text, low + k - 1)>>
        ELSE IF continuesEscape(text, low + k - 1, low) THEN <<>>
        ELSE <<text[low + k - 1]>>]))

\* the string literal whose characters start at low and whose closing
\* quote is at end
parseStringTo(text, low, end) ==
    IF end = 0 THEN ParseError
    ELSE IF \E i \in low..(end - 1) :
                \/ text[i] < 32
                \/ startsEscape(text, i, low) /\ ~validEscape(text, i, end)
    THEN ParseError
    ELSE Parsed(JsonString(stringChars(text, low, end)), end + 1)

\* the string literal whose characters start at position i
parseString(text, i) == parseStringTo(text, i, closingQuote(text, i, i))

\* the position after the digits that start at i
RECURSIVE skipDigits(_, _)
skipDigits(text, i) ==
    IF i <= Len(text) /\ isDigit(text[i]) THEN skipDigits(text, i + 1) ELSE i

\* the number written by the digits of a text
RECURSIVE digitsValue(_)
digitsValue(digits) ==
    IF Len(digits) = 0 THEN 0
    ELSE (digitsValue(SubSeq(digits, 1, Len(digits) - 1)) * 10) + (digits[Len(digits)] - 48)

\* the digits of a number from i to the position before end; a number has
\* a digit and no leading zero
parseDigits(text, i, end, sign) ==
    IF end = i \/ (text[i] = 48 /\ end > i + 1) THEN ParseError
    ELSE Parsed(JsonNumber(sign * digitsValue(SubSeq(text, i, end - 1))), end)

parseNumber(text, i) ==
    IF text[i] = 45 THEN parseDigits(text, i + 1, skipDigits(text, i + 1), -1)
    ELSE parseDigits(text, i, skipDigits(text, i), 1)

parseLiteral(text, i, word, value) ==
    IF occursAt(text, word, i) THEN Parsed(value, i + Len(word)) ELSE ParseError

RECURSIVE parseValue(_, _)
RECURSIVE parseMembers(_, _, _)
RECURSIVE parseMemberValue(_, _, _)
RECURSIVE parseMemberEnd(_, _, _, _)
RECURSIVE parseElements(_, _, _)
RECURSIVE parseElementEnd(_, _, _)

\* a value at position i, which holds no white space
parseValueAt(text, i) ==
    IF i > Len(text) THEN ParseError
    ELSE IF text[i] = 123
    THEN IF skipWhiteSpace(text, i + 1) <= Len(text) /\ text[skipWhiteSpace(text, i + 1)] = 125
         THEN Parsed(JsonObject(<<>>), skipWhiteSpace(text, i + 1) + 1)
         ELSE parseMembers(text, skipWhiteSpace(text, i + 1), <<>>)
    ELSE IF text[i] = 91
    THEN IF skipWhiteSpace(text, i + 1) <= Len(text) /\ text[skipWhiteSpace(text, i + 1)] = 93
         THEN Parsed(JsonArray(<<>>), skipWhiteSpace(text, i + 1) + 1)
         ELSE parseElements(text, i + 1, <<>>)
    ELSE IF text[i] = 34 THEN parseString(text, i + 1)
    ELSE IF text[i] = 45 \/ isDigit(text[i]) THEN parseNumber(text, i)
    ELSE IF text[i] = 116 THEN parseLiteral(text, i, TrueText, JsonBoolean(TRUE))
    ELSE IF text[i] = 102 THEN parseLiteral(text, i, FalseText, JsonBoolean(FALSE))
    ELSE IF text[i] = 110 THEN parseLiteral(text, i, NullText, JsonNull)
    ELSE ParseError

parseValue(text, i) == parseValueAt(text, skipWhiteSpace(text, i))

\* the members of an object from position i on, which holds no white space
parseMembers(text, i, properties) ==
    IF i > Len(text) \/ text[i] # 34 THEN ParseError
    ELSE parseMemberValue(text, parseString(text, i + 1), properties)

\* the colon and the value of a member whose key has been read
parseMemberValue(text, key, properties) ==
    IF ~key.ok THEN ParseError
    ELSE IF skipWhiteSpace(text, key.next) > Len(text) THEN ParseError
    ELSE IF text[skipWhiteSpace(text, key.next)] # 58 THEN ParseError
    ELSE parseMemberEnd(text, key.value.s,
                        parseValue(text, skipWhiteSpace(text, key.next) + 1), properties)

\* the comma or the closing brace after a member
parseMemberEnd(text, key, member, properties) ==
    IF ~member.ok THEN ParseError
    ELSE IF skipWhiteSpace(text, member.next) > Len(text) THEN ParseError
    ELSE IF text[skipWhiteSpace(text, member.next)] = 125
    THEN Parsed(JsonObject(setProperty(properties, key, member.value)),
                skipWhiteSpace(text, member.next) + 1)
    ELSE IF text[skipWhiteSpace(text, member.next)] = 44
    THEN parseMembers(text, skipWhiteSpace(text, skipWhiteSpace(text, member.next) + 1),
                      setProperty(properties, key, member.value))
    ELSE ParseError

\* the elements of an array from position i on
parseElements(text, i, items) == parseElementEnd(text, parseValue(text, i), items)

\* the comma or the closing bracket after an element
parseElementEnd(text, element, items) ==
    IF ~element.ok THEN ParseError
    ELSE IF skipWhiteSpace(text, element.next) > Len(text) THEN ParseError
    ELSE IF text[skipWhiteSpace(text, element.next)] = 93
    THEN Parsed(JsonArray(Append(items, element.value)),
                skipWhiteSpace(text, element.next) + 1)
    ELSE IF text[skipWhiteSpace(text, element.next)] = 44
    THEN parseElements(text, skipWhiteSpace(text, element.next) + 1,
                       Append(items, element.value))
    ELSE ParseError

\* JSON.parse(text): the value, or a SyntaxError (ok is FALSE)
jsonParseEnd(text, result) ==
    IF result.ok /\ skipWhiteSpace(text, result.next) > Len(text) THEN result ELSE ParseError

jsonParse(text) == jsonParseEnd(text, parseValue(text, 1))

(***************************************************************************)
(* parseXMPContent                                                         *)
(***************************************************************************)
\* the positions of a character in a text, in ascending order
positionsOf(text, c) ==
    SelectSeq(Array([i \in 1..Len(text) |-> IF text[i] = c THEN i ELSE 0]),
              LAMBDA i : i > 0)

\* the first of the ascending positions that is at least p, 0 when none is
firstFrom(positions, p) ==
    IF \E k \in 1..Len(positions) : positions[k] >= p
    THEN positions[CHOOSE k \in 1..Len(positions) :
                       positions[k] >= p /\ (k = 1 \/ positions[k - 1] < p)]
    ELSE 0

\* <prefix:Raw_JSON>
rawJsonOpen(prefix) == <<60>> \o prefix \o <<58>> \o RawJsonKey \o <<62>>

\* </prefix:Raw_JSON>
rawJsonClose(prefix) == <<60, 47>> \o prefix \o <<58>> \o RawJsonKey \o <<62>>

\* whether /<prefix:Raw_JSON>([^<]+)<\/prefix:Raw_JSON>/ matches with its
\* opening tag at position i; close is the position of the first < after
\* the opening tag
rawJsonMatchesAt(text, prefix, i, close) ==
    /\ close > i + Len(rawJsonOpen(prefix))
    /\ occursAt(text, rawJsonClose(prefix), close)

\* the positions at which the pattern of a prefix matches
rawJsonStarts(text, prefix, ltPositions) ==
    SelectSeq(ltPositions,
              LAMBDA i : /\ occursAt(text, rawJsonOpen(prefix), i)
                         /\ rawJsonMatchesAt(text, prefix, i,
                                firstFrom(ltPositions, i + Len(rawJsonOpen(prefix)))))

\* xmpContent.match(pattern) of a prefix: whether there is a match, and its
\* first group
rawJsonGroup(text, prefix, starts, ltPositions) ==
    IF Len(starts) = 0 THEN [found |-> FALSE, group |-> <<>>]
    ELSE [found |-> TRUE,
          group |-> SubSeq(text, starts[1] + Len(rawJsonOpen(prefix)),
                           firstFrom(ltPositions, starts[1] + Len(rawJsonOpen(prefix))) - 1)]

rawJsonMatchWith(text, prefix, ltPositions) ==
    rawJsonGroup(text, prefix, rawJsonStarts(text, prefix, ltPositions), ltPositions)

rawJsonMatch(text, prefix) == rawJsonMatchWith(text, prefix, positionsOf(text, 60))

\* the first position from i on that holds no \s character
RECURSIVE runEnd(_, _)
runEnd(text, i) == IF i <= Len(text) /\ isWhiteSpace(text[i]) THEN runEnd(text, i + 1) ELSE i

\* the last position up to i that holds no \s character, 0 when none does
RECURSIVE runStart(_, _)
runStart(text, i) == IF i >= 1 /\ isWhiteSpace(text[i]) THEN runStart(text, i - 1) ELSE i

\* whether /\.\s+"/ matches at position i
separatorAt(text, i) ==
    /\ i >= 1
    /\ text[i] = 46
    /\ i + 1 <= Len(text)
    /\ isWhiteSpace(text[i + 1])
    /\ runEnd(text, i + 1) <= Len(text)
    /\ text[runEnd(text, i + 1)] = 34

\* whether position i is white space or the quote of a match of /\.\s+"/
insideSeparator(text, i) ==
    /\ isWhiteSpace(text[i]) \/ text[i] = 34
    /\ i >= 2
    /\ isWhiteSpace(text[i - 1]) \/ text[i - 1] = 46
    /\ separatorAt(text, runStart(text, i - 1))

\* rawJsonString.replace(/\.\s+"/g, ', "')
repairSeparators(text) ==
    flatten(Array([i \in 1..Len(text) |->
        IF text[i] = 46 /\ separatorAt(text, i) THEN <<Comma, 32, 34>>
        ELSE IF insideSeparator(text, i) THEN <<>>
        ELSE <<text[i]>>]))

\* the own properties Object.assign copies from a source value
sourceProperties(value) ==
    CASE value.t = "object" -> value.items
      [] value.t = "array" ->
             Array([i \in 1..Len(value.items) |->
                       Property(numberToString(i - 1), value.items[i])])
      [] value.t = "string" ->
             Array([i \in 1..Len(value.s) |->
                       Property(numberToString(i - 1), JsonString(<<value.s[i]>>))])
      [] OTHER -> <<>>

\* whether the decoded Raw_JSON is taken as the metadata
acceptsLedger(decoded) ==
    /\ decoded.ok
    /\ truthy(decoded.value)
    /\ truthy(orElse(getProperty(decoded.value, OriginalMetadataKey),
                     getProperty(decoded.value, FlattenedFieldsKey)))

\* enhancedMetadata: Raw_JSON and the properties of original_metadata
enhancedMetadata(rawJsonString, parsedJson) ==
    JsonObject(
        IF truthy(getProperty(parsedJson, OriginalMetadataKey))
        THEN assignProperties(<<Property(RawJsonKey, JsonString(rawJsonString))>>,
                 sourceProperties(getProperty(parsedJson, OriginalMetadataKey)))
        ELSE <<Property(RawJsonKey, JsonString(rawJsonString))>>)

\* one round of the loop over rawJsonPatterns, given the repaired text and
\* the value decoded from it
ledgerResult(rawJsonString, decoded) ==
    IF acceptsLedger(decoded)
    THEN [returned |-> TRUE, value |-> enhancedMetadata(rawJsonString, decoded.value)]
    ELSE [returned |-> FALSE, value |-> JsonUndefined]

ledgerDecoded(rawJsonString) == ledgerResult(rawJsonString, jsonParse(rawJsonString))

ledgerOfMatch(match) ==
    IF match.found THEN ledgerDecoded(repairSeparators(unescapeXML(match.group)))
    ELSE [returned |-> FALSE, value |-> JsonUndefined]

\* the namespaces of rawJsonPatterns, in the order of the list
rawJsonPrefixes == <<Codes("lifestyle"), Codes("product"), Codes("orbit")>>

NotReturned == [returned |-> FALSE, value |-> JsonUndefined]

\* the loop over rawJsonPatterns from pattern number n on
RECURSIVE ledgerFrom(_, _)
RECURSIVE ledgerRound(_, _, _)
ledgerFrom(xmpContent, n) ==
    IF n > Len(rawJsonPrefixes) THEN NotReturned
    ELSE ledgerRound(xmpContent, n, ledgerOfMatch(rawJsonMatch(xmpContent, rawJsonPrefixes[n])))

\* the end of round n: the return, or the next pattern
ledgerRound(xmpContent, n, result) ==
    IF result.returned THEN result ELSE ledgerFrom(xmpContent, n + 1)

\* <namespace:
tagOpen(namespace) == <<60>> \o namespace \o <<58>>

\* </namespace:
tagClose(namespace) == <<60, 47>> \o namespace \o <<58>>

\* the match of /<ns:([^>]+)>([^<]+)<\/ns:[^>]+>/ that starts at position
\* i, given the end of the name, the end of the value and the end of the
\* closing tag
elementMatch(text, namespace, i, nameEnd, valueEnd, tagEnd) ==
    IF /\ nameEnd > i + Len(tagOpen(namespace))
       /\ valueEnd > nameEnd + 1
       /\ occursAt(text, tagClose(namespace), valueEnd)
       /\ tagEnd > valueEnd + Len(tagClose(namespace))
    THEN [found |-> TRUE,
          fieldName |-> SubSeq(text, i + Len(tagOpen(namespace)), nameEnd - 1),
          fieldValue |-> SubSeq(text, nameEnd + 1, valueEnd - 1),
          lastIndex |-> tagEnd + 1]
    ELSE [found |-> FALSE, fieldName |-> <<>>, fieldValue |-> <<>>, lastIndex |-> 0]

\* the end of the value and of the closing tag, from the end of the name
elementMatchFrom(text, namespace, i, nameEnd, valueEnd, gtPositions) ==
    elementMatch(text, namespace, i, nameEnd, valueEnd,
                 IF valueEnd = 0 THEN 0
                 ELSE firstFrom(gtPositions, valueEnd + Len(tagClose(namespace))))

elementMatchAt(text, namespace, i, nameEnd, ltPositions, gtPositions) ==
    elementMatchFrom(text, namespace, i, nameEnd,
                     IF nameEnd = 0 THEN 0 ELSE firstFrom(ltPositions, nameEnd + 1),
                     gtPositions)

\* the match of the pattern of a namespace that starts at position i
elementAt(text, namespace, i, ltPositions, gtPositions) ==
    IF occursAt(text, tagOpen(namespace), i)
    THEN elementMatchAt(text, namespace, i,
                        firstFrom(gtPositions, i + Len(tagOpen(namespace))),
                        ltPositions, gtPositions)
    ELSE [found |-> FALSE, fieldName |-> <<>>, fieldValue |-> <<>>, lastIndex |-> 0]

\* the matches pattern.exec finds one after the other, from lastIndex on
RECURSIVE elementsFrom(_, _, _, _, _)
elementsFrom(text, namespace, lastIndex, ltPositions, gtPositions) ==
    LET starts == SelectSeq(ltPositions,
                     LAMBDA i : i >= lastIndex
                                /\ elementAt(text, namespace, i, ltPositions, gtPositions).found)
    IN  IF Len(starts) = 0 THEN <<>>
        ELSE <<elementAt(text, namespace, starts[1], ltPositions, gtPositions)>>
             \o elementsFrom(text, namespace,
                    elementAt(text, namespace, starts[1], ltPositions, gtPositions).lastIndex,
                    ltPositions, gtPositions)

\* a variant: the loop over the matches keeps the Raw_JSON element
RECURSIVE scrapedFields_rawJsonKept(_, _, _)
scrapedFields_rawJsonKept(fields, elements, n) ==
    IF n > Len(elements) THEN fields
    ELSE scrapedFields_rawJsonKept(setProperty(fields, elements[n].fieldName,
                                       JsonString(unescapeXML(elements[n].fieldValue))),
                                   elements, n + 1)

\* metadata[namespace] after the loop over the matches: Raw_JSON is skipped
RECURSIVE scrapedFields(_, _, _)
scrapedFields(fields, elements, n) ==
    IF n > Len(elements) THEN fields
    ELSE IF elements[n].fieldName = RawJsonKey THEN scrapedFields(fields, elements, n + 1)
    ELSE scrapedFields(setProperty(fields, elements[n].fieldName,
                                   JsonString(unescapeXML(elements[n].fieldValue))),
                       elements, n + 1)

\* the namespaces of the fallback patterns, in the order of the list
namespaces == <<Codes("lifestyle"), Codes("product"), Codes("orbit"), Codes("processing")>>

\* metadata after the patterns from number n on, given the matches of
\* pattern n
RECURSIVE scrapeFrom(_, _, _, _, _)
RECURSIVE scrapeRound(_, _, _, _, _, _)
scrapeFrom(data, xmpContent, n, ltPositions, gtPositions) ==
    IF n > Len(namespaces) THEN data
    ELSE scrapeRound(data, xmpContent, n, ltPositions, gtPositions,
                     elementsFrom(xmpContent, namespaces[n], 1, ltPositions, gtPositions))

scrapeRound(data, xmpContent, n, ltPositions, gtPositions, elements) ==
    IF Len(elements) = 0 THEN scrapeFrom(data, xmpContent, n + 1, ltPositions, gtPositions)
    ELSE scrapeFrom(setProperty(data, namespaces[n],
                                JsonObject(scrapedFields(<<>>, elements, 1))),
                    xmpContent, n + 1, ltPositions, gtPositions)

\* the fallback: the elements of the four namespaces
scrape(xmpContent) ==
    JsonObject(scrapeFrom(<<>>, xmpContent, 1, positionsOf(xmpContent, 60),
                          positionsOf(xmpContent, 62)))

parseXMPContentWith(xmpContent, ledger) ==
    IF ledger.returned THEN ledger.value ELSE scrape(xmpContent)

\* a parser that adds the scraped namespaces to the metadata of the ledger
parseXMPContent_scrapeMerged(xmpContent) ==
    IF ledgerFrom(xmpContent, 1).returned
    THEN JsonObject(assignProperties(ledgerFrom(xmpContent, 1).value.items,
                                     scrape(xmpContent).items))
    ELSE scrape(xmpContent)

parseXMPContent(xmpContent) == parseXMPContentWith(xmpContent, ledgerFrom(xmpContent, 1))

(***************************************************************************)
(* A packet is written from a metadata tree, read back, edited by another  *)
(* writer in its tagged elements, and read again                           *)
(***************************************************************************)
MaxLeaves == 2

\* a value of a tree: its section ('' for a top-level key), key and value
Leaf(section, key, value) == [section |-> section, key |-> key, value |-> value]

LeafPool ==
    << Leaf(Codes("scene_overview"), Codes("setting"), JsonString(Codes("Outdoor patio"))),
       Leaf(Codes("human_elements"), Codes("number_of_people"), JsonNumber(8)),
       Leaf(Codes("key_objects"), Codes("furniture"),
            JsonArray(<<JsonString(Codes("Table")), JsonString(Codes("Chairs"))>>)),
       Leaf(<<>>, Codes("notes"), JsonString(Codes("a &lt; b"))),
       Leaf(<<>>, Codes("caption"), JsonString(Codes("Quiet evening. "))),
       Leaf(<<>>, Codes("quote"), JsonString(Codes("say &quot;hi&quot;"))),
       Leaf(Codes("environment"), Codes("location_type"),
            JsonArray(<<JsonString(Codes("Terrace")), JsonString(Codes("Garden"))>>)),
       Leaf(Codes("human_elements"), Codes("demographics"), JsonString(Codes("Adults"))) >>

\* the tree with one more leaf
withLeaf(properties, leaf) ==
    IF Len(leaf.section) = 0 THEN setProperty(properties, leaf.key, leaf.value)
    ELSE setProperty(properties, leaf.section,
             JsonObject(setProperty(
                 IF hasProperty(JsonObject(properties), leaf.section)
                 THEN getProperty(JsonObject(properties), leaf.section).items
                 ELSE <<>>,
                 leaf.key, leaf.value)))

\* the tree of the chosen leaves of the pool, in the order of the pool
RECURSIVE treeOf(_, _, _)
treeOf(properties, chosen, n) ==
    IF n > Len(LeafPool) THEN JsonObject(properties)
    ELSE IF n \in chosen THEN treeOf(withLeaf(properties, LeafPool[n]), chosen, n + 1)
    ELSE treeOf(properties, chosen, n + 1)

Trees ==
    { treeOf(<<>>, chosen, 1) :
          chosen \in { c \in SUBSET (1..Len(LeafPool)) : Cardinality(c) <= MaxLeaves } }

\* text.replace(search, replacement) for a search string: the first
\* occurrence is replaced
replaceFirstAt(text, search, replacement, starts) ==
    IF Len(starts) = 0 THEN text
    ELSE SubSeq(text, 1, starts[1] - 1) \o replacement
         \o SubSeq(text, starts[1] + Len(search), Len(text))

replaceFirst(text, search, replacement) ==
    replaceFirstAt(text, search, replacement,
                   SelectSeq(positionsOf(text, search[1]),
                             LAMBDA i : occursAt(text, search, i)))

RatingName == Codes("Rating")

ProcessorVersionName == Codes("Processor_Version")

VersionText == Codes("1.0.0")

SchemaTypeOpen == Codes("<processing:Schema_Type>")

ForgedText == Codes("forged")

\* the edits of another writer: an element added to the schema-specific
\* block, an element removed from the processing block, the value of an
\* element of the processing block altered
Edits == {"added", "removed", "altered"}

editedPacket(text, type, edit) ==
    CASE edit = "added" ->
             replaceFirst(text, Spaces(10) \o rawJsonOpen(type),
                          elementLine(type, RatingName, ForgedText)
                              \o Spaces(10) \o rawJsonOpen(type))
      [] edit = "removed" ->
             replaceFirst(text, elementLine(ProcessingPrefix, ProcessorVersionName, VersionText),
                          <<>>)
      [] edit = "altered" ->
             replaceFirst(text, SchemaTypeOpen \o type, SchemaTypeOpen \o ForgedText)

InitLedger ==
    /\ pc = "start"
    /\ CodecIdle
    /\ CanonIdle
    /\ ReportIdle
    /\ ToolIdle
    /\ tree \in Trees
    /\ packetSchema \in SchemaNames
    /\ xmpInfo = [threw |-> FALSE, xmp_content |-> <<>>]
    /\ parsed = <<>>
    /\ alteredPacket = <<>>
    /\ parsedAltered = <<>>

\* EmbedMetadataTool.execute: createXMPPacket(params.metadata, schema_type)
CreatePacket ==
    /\ pc = "start"
    /\ xmpInfo' = createXMPPacket(tree, packetSchema)
    /\ pc' = IF xmpInfo'.threw THEN "threw" ELSE "created"
    /\ UNCHANGED <<tree, packetSchema, parsed, alteredPacket, parsedAltered>>
    /\ UNCHANGED <<codecVars, canonVars, reportVars, toolVars>>

\* extractXMPFromImage: parseXMPContent(xmpData) on the packet read back
ParsePacket ==
    /\ pc = "created"
    /\ parsed' = parseXMPContent(xmpInfo.xmp_content)
    /\ pc' = "parsed"
    /\ UNCHANGED <<tree, packetSchema, xmpInfo, alteredPacket, parsedAltered>>
    /\ UNCHANGED <<codecVars, canonVars, reportVars, toolVars>>

\* another writer edits a tagged element of the stored packet and leaves
\* the Raw_JSON element as it is
EditTagged(edit) ==
    /\ pc = "parsed"
    /\ alteredPacket' = editedPacket(xmpInfo.xmp_content, packetSchema, edit)
    /\ pc' = "edited"
    /\ UNCHANGED <<tree, packetSchema, xmpInfo, parsed, parsedAltered>>
    /\ UNCHANGED <<codecVars, canonVars, reportVars, toolVars>>

\* extractXMPFromImage: parseXMPContent(xmpData) on the edited packet
ParseAltered ==
    /\ pc = "edited"
    /\ parsedAltered' = parseXMPContent(alteredPacket)
    /\ pc' = "reparsed"
    /\ UNCHANGED <<tree, packetSchema, xmpInfo, parsed, alteredPacket>>
    /\ UNCHANGED <<codecVars, canonVars, reportVars, toolVars>>

NextLedger ==
    \/ CreatePacket
    \/ ParsePacket
    \/ \E edit \in Edits : EditTagged(edit)
    \/ ParseAltered

SpecLedger == InitLedger /\ [][NextLedger]_vars

(***************************************************************************)
(* Claims about the Ledger                                                 *)
(***************************************************************************)
\* a result of the Ledger path carries the Raw_JSON entry; the scrape puts
\* its fields under the names of the namespaces and skips Raw_JSON
C4_LedgerPath(result) == hasProperty(result, RawJsonKey)

\* the result apart from the Raw_JSON entry
C4_WithoutRawJson(result) ==
    JsonObject(SelectSeq(result.items, LAMBDA p : p.k # RawJsonKey))

\* C4: for every metadata tree and schema variant, parseXMPContent applied
\* to the packet of createXMPPacket takes the Ledger path and returns a map
\* that, apart from the added Raw_JSON entry, equals the tree.
C4_RoundTrip ==
    pc = "parsed" => C4_LedgerPath(parsed) /\ C4_WithoutRawJson(parsed) = tree

\* the trees of the pool whose strings hold no entity text and no period
\* before trailing white space do come back
C4_PlainTrees ==
    { treeOf(<<>>, chosen, 1) :
          chosen \in { c \in SUBSET (1..3) : Cardinality(c) <= MaxLeaves } }

C4_PlainRoundTrip ==
    pc = "parsed" /\ tree \in C4_PlainTrees
        => C4_LedgerPath(parsed) /\ C4_WithoutRawJson(parsed) = tree

\* C5: whenever the packet holds a Raw_JSON element that decodes to an
\* object with original_metadata or flattened_fields, a packet with the same
\* Raw_JSON element and an added, removed or altered tagged element in the
\* schema-specific or the processing block parses to the same result.
C5_LedgerAuthoritative ==
    pc = "reparsed" /\ C4_LedgerPath(parsed) => parsedAltered = parsed

C5_Witness ==
    /\ pc = "reparsed"
    /\ C4_LedgerPath(parsed)
    /\ alteredPacket # xmpInfo.xmp_content
    /\ parsedAltered = parsed

(***************************************************************************)
(* The image converter's output path                                       *)
(***************************************************************************)
Dot == 46

MeSuffix == Codes("_me")

JpgExtension == Codes(".jpg")

\* filePath.lastIndexOf(c): the 1-based position of the last c, 0 when
\* there is none
lastIndexOf(str, c) ==
    IF \E i \in 1..Len(str) : str[i] = c
    THEN CHOOSE i \in 1..Len(str) : str[i] = c /\ \A j \in (i + 1)..Len(str) : str[j] # c
    ELSE 0

addMetadataEnhancementSuffix(filePath) ==
    IF lastIndexOf(filePath, Dot) = 0 THEN filePath \o MeSuffix
    ELSE SubSeq(filePath, 1, lastIndexOf(filePath, Dot) - 1) \o MeSuffix
         \o SubSeq(filePath, lastIndexOf(filePath, Dot), Len(filePath))

\* the alternatives of /\.(png|tiff?|webp|bmp)$/i
convertedExtensions ==
    <<Codes(".png"), Codes(".tif"), Codes(".tiff"), Codes(".webp"), Codes(".bmp")>>

\* finalPath.replace(/\.(png|tiff?|webp|bmp)$/i, '.jpg')
replaceConvertedExtension(finalPathText) ==
    IF \E n \in 1..Len(convertedExtensions) :
           endsWith(toLowerCase(finalPathText), convertedExtensions[n])
    THEN SubSeq(finalPathText, 1,
                Len(finalPathText)
                - Len(convertedExtensions[CHOOSE n \in 1..Len(convertedExtensions) :
                          endsWith(toLowerCase(finalPathText), convertedExtensions[n])]))
         \o JpgExtension
    ELSE finalPathText

updateOutputPath(path, isConverted) ==
    IF isConverted THEN replaceConvertedExtension(addMetadataEnhancementSuffix(path))
    ELSE addMetadataEnhancementSuffix(path)

MaxDepth == 2

DirectoryNames == { Codes("folder"), Codes("v1.2") }

\* the directory parts of at most depth directories
RECURSIVE DirectoriesOf(_)
DirectoriesOf(depth) ==
    IF depth = 0 THEN { <<>> }
    ELSE DirectoriesOf(depth - 1)
         \cup { d \o name \o <<47>> : d \in DirectoriesOf(depth - 1), name \in DirectoryNames }

BaseNames == { Codes("image"), Codes("complex.file.name"), Codes("Supabase_Buckets_Image") }

Extensions ==
    { <<>>, Codes(".png"), Codes(".jpg"), Codes(".tiff"), Codes(".TIF"), Codes(".webp"),
      Codes(".bmp"), Codes(".PnG") }

OutputPaths ==
    { d \o b \o e : d \in DirectoriesOf(MaxDepth), b \in BaseNames, e \in Extensions }

\* the variables of the other tools while the converter runs
pathOthers == <<codecVars, canonVars, reportVars, ledgerVars, detectVars, repairVars, clockVars, readVars, scanVars, fallbackVars, accountVars, labelVars, execVars, embedVars, escapeVars, enhanceVars>>

InitPath ==
    /\ pc = "start"
    /\ CodecIdle
    /\ CanonIdle
    /\ ReportIdle
    /\ LedgerIdle
    /\ DetectIdle
    /\ RepairIdle
    /\ ClockIdle
    /\ ReadIdle
    /\ ScanIdle
    /\ FallbackIdle
    /\ AccountIdle
    /\ LabelIdle
    /\ ExecIdle
    /\ EmbedIdle
    /\ EscapeIdle
    /\ EnhanceIdle
    /\ originalPath \in OutputPaths
    /\ converted \in BOOLEAN
    /\ finalPath = <<>>

\* EmbedMetadataTool.execute: updateOutputPath(params.output_path, converted)
UpdateOutputPath ==
    /\ pc = "start"
    /\ finalPath' = updateOutputPath(originalPath, converted)
    /\ pc' = "updated"
    /\ UNCHANGED <<originalPath, converted, pathOthers>>

NextPath == UpdateOutputPath

SpecPath == InitPath /\ [][NextPath]_vars

(***************************************************************************)
(* Claims about the output path                                            *)
(***************************************************************************)
\* the directory part of a path: up to and with its last slash
C11_Directory(path) == SubSeq(path, 1, lastIndexOf(path, 47))

\* the file name of a path: what follows its last slash
C11_FileName(path) == SubSeq(path, lastIndexOf(path, 47) + 1, Len(path))

\* a file name with _me before its extension, at its end when it has none
C11_NameWithSuffix(name) ==
    IF lastIndexOf(name, Dot) = 0 THEN name \o MeSuffix
    ELSE SubSeq(name, 1, lastIndexOf(name, Dot) - 1) \o MeSuffix
         \o SubSeq(name, lastIndexOf(name, Dot), Len(name))

C11_ConvertedExtensions == { Codes("png"), Codes("tif"), Codes("tiff"), Codes("webp"), Codes("bmp") }

\* a file name whose final extension, when it is one of the converted
\* formats in any case, is replaced by .jpg
C11_NameAsJpg(name) ==
    IF /\ lastIndexOf(name, Dot) > 0
       /\ toLowerCase(SubSeq(name, lastIndexOf(name, Dot) + 1, Len(name)))
              \in C11_ConvertedExtensions
    THEN SubSeq(name, 1, lastIndexOf(name, Dot) - 1) \o JpgExtension
    ELSE name

C11_Expected(path, isConverted) ==
    C11_Directory(path)
    \o (IF isConverted THEN C11_NameAsJpg(C11_NameWithSuffix(C11_FileName(path)))
        ELSE C11_NameWithSuffix(C11_FileName(path)))

\* C11: updateOutputPath returns the path with _me immediately before the
\* file extension (at the end when there is none) and, when converted, with
\* a final extension png/tif/tiff/webp/bmp replaced by .jpg; the directory
\* part is returned unchanged.
C11_UpdateOutputPath ==
    pc = "updated"
        => /\ finalPath = C11_Expected(originalPath, converted)
           /\ C11_Directory(finalPath) = C11_Directory(originalPath)

\* the paths whose directory part holds no dot do come out as stated
C11_PlainDirectory ==
    pc = "updated" /\ lastIndexOf(C11_Directory(originalPath), Dot) = 0
        => /\ finalPath = C11_Expected(originalPath, converted)
           /\ C11_Directory(finalPath) = C11_Directory(originalPath)

(***************************************************************************)
(* The report tool: the Raw_JSON of a metadata object, and the detection   *)
(* of its schema variant.  The metadata is a JSON value.                   *)
(***************************************************************************)
\* whether /\.\s*\n\s*"/ matches at position i
lineSeparatorAt(text, i) ==
    /\ separatorAt(text, i)
    /\ \E j \in (i + 1)..(runEnd(text, i + 1) - 1) : text[j] = 10

\* whether position i is white space or the quote of a match of /\.\s*\n\s*"/
insideLineSeparator(text, i) ==
    /\ insideSeparator(text, i)
    /\ lineSeparatorAt(text, runStart(text, i - 1))

\* rawJsonString.replace(/\.\s*\n\s*"/g, ',\n  "')
repairLineSeparators(text) ==
    flatten(Array([i \in 1..Len(text) |->
        IF text[i] = 46 /\ lineSeparatorAt(text, i) THEN <<Comma, 10, 32, 32, 34>>
        ELSE IF insideLineSeparator(text, i) THEN <<>>
        ELSE <<text[i]>>]))

\* whether the text is cleaned: includes('.\n  "') || includes('. "')
needsCleaning(rawJsonString) ==
    \/ includes(rawJsonString, <<46, 10, 32, 32, 34>>)
    \/ includes(rawJsonString, <<46, 32, 34>>)

\* cleanedJsonString
cleanedJsonString(rawJsonString) ==
    IF needsCleaning(rawJsonString)
    THEN repairSeparators(repairLineSeparators(rawJsonString))
    ELSE rawJsonString

\* rawJsonSources: metadata.Raw_JSON and metadata.<schema>?.Raw_JSON
rawJsonSources(meta) ==
    << getProperty(meta, RawJsonKey),
       getProperty(getProperty(meta, Codes("lifestyle")), RawJsonKey),
       getProperty(getProperty(meta, Codes("product")), RawJsonKey),
       getProperty(getProperty(meta, Codes("orbit")), RawJsonKey) >>

\* the loop over rawJsonSources from source number n on: the first value
\* that decodes, null when none does
RECURSIVE extractRawJSONFrom(_, _)
RECURSIVE extractRawJSONRound(_, _, _)
extractRawJSONFrom(sources, n) ==
    IF n > Len(sources) THEN JsonNull
    ELSE IF sources[n].t = "string" /\ Len(sources[n].s) > 0
    THEN extractRawJSONRound(sources, n, jsonParse(cleanedJsonString(sources[n].s)))
    ELSE extractRawJSONFrom(sources, n + 1)

\* the end of round n: the return, or the next source after a SyntaxError
extractRawJSONRound(sources, n, decoded) ==
    IF decoded.ok THEN decoded.value ELSE extractRawJSONFrom(sources, n + 1)

extractRawJSONFromMetadata(meta) == extractRawJSONFrom(rawJsonSources(meta), 1)

lifestylePatterns ==
    << Codes("lifestyle_"), Codes("emotional_hooks"), Codes("target_demographic"),
       Codes("social_dynamics"), Codes("marketing_potential"),
       Codes("aspirational_elements"), Codes("brand_alignment"),
       Codes("cultural_significance"), Codes("lifestyle_values"),
       Codes("socioeconomic_indicators") >>

productPatterns ==
    << Codes("product_"), Codes("commercial_analysis"), Codes("target_market"),
       Codes("price_point"), Codes("design_style"), Codes("material_quality"),
       Codes("construction_quality"), Codes("market_positioning"), Codes("product_type"),
       Codes("physical_characteristics") >>

orbitPatterns ==
    << Codes("orbit_"), Codes("scene_complexity"), Codes("energy_level"),
       Codes("aesthetic_style"), Codes("visual_mood"), Codes("commercial_viability"),
       Codes("photographic_elements") >>

\* patterns.filter(pattern => keyString.includes(pattern)).length
patternMatches(patterns, keyString) ==
    Cardinality({ i \in 1..Len(patterns) : includes(keyString, patterns[i]) })

\* the fallback on the schema prefixes, and the default
prefixFallback(keyString) ==
    IF includes(keyString, Codes("lifestyle_")) THEN Codes("lifestyle")
    ELSE IF includes(keyString, Codes("product_")) THEN Codes("product")
    ELSE IF includes(keyString, Codes("orbit_")) THEN Codes("orbit")
    ELSE Codes("lifestyle")

\* the decision on the three counts
patternDecision(lifestyleMatches, productMatches, orbitMatches, keyString) ==
    IF lifestyleMatches > productMatches /\ lifestyleMatches > orbitMatches
    THEN Codes("lifestyle")
    ELSE IF productMatches > lifestyleMatches /\ productMatches > orbitMatches
    THEN Codes("product")
    ELSE IF orbitMatches > lifestyleMatches /\ orbitMatches > productMatches
    THEN Codes("orbit")
    ELSE prefixFallback(keyString)

\* whether metadata[key] && typeof metadata[key] === 'object'
holdsObject(meta, key) == getProperty(meta, key).t \in {"object", "array"}

\* rawJson.processing.schema_type of a truthy rawJson with a truthy processing
schemaFromProcessing(rawJson) ==
    IF truthy(rawJson) /\ truthy(getProperty(rawJson, ProcessingKey))
    THEN getProperty(getProperty(rawJson, ProcessingKey), Codes("schema_type"))
    ELSE JsonUndefined

\* Object.keys(metadata)
metadataKeys(meta) == Array([i \in 1..Len(meta.items) |-> meta.items[i].k])

\* detectSchemaType, given the key string the patterns are counted in
detectSchemaTypeWith(meta, keyString) ==
    IF holdsObject(meta, Codes("lifestyle")) THEN JsonString(Codes("lifestyle"))
    ELSE IF holdsObject(meta, Codes("product")) THEN JsonString(Codes("product"))
    ELSE IF holdsObject(meta, Codes("orbit")) THEN JsonString(Codes("orbit"))
    ELSE IF truthy(schemaFromProcessing(extractRawJSONFromMetadata(meta)))
    THEN schemaFromProcessing(extractRawJSONFromMetadata(meta))
    ELSE JsonString(patternDecision(patternMatches(lifestylePatterns, keyString),
                                    patternMatches(productPatterns, keyString),
                                    patternMatches(orbitPatterns, keyString),
                                    keyString))

\* a variant: the key string is not lower-cased
detectSchemaType_caseSensitive(meta) ==
    detectSchemaTypeWith(meta, join(metadataKeys(meta), <<32>>))

\* CreateMetadataReportTool.detectSchemaType
detectSchemaType(meta) ==
    detectSchemaTypeWith(meta, toLowerCase(join(metadataKeys(meta), <<32>>)))

(***************************************************************************)
(* Metadata handed to the detection: every object of at most MaxKeys       *)
(* properties of a pool.                                                   *)
(***************************************************************************)
MaxKeys == 3

TaggedLedger == Codes("{\"processing\":{\"schema_type\":\"orbit\"}}")

UntaggedLedger == Codes("{\"processing\":{\"version\":\"1\"}}")

DetectPool ==
    << Property(Codes("lifestyle_values"), JsonString(Codes("calm"))),
       Property(Codes("emotional_hooks"), JsonString(Codes("warmth"))),
       Property(Codes("product_type"), JsonString(Codes("chair"))),
       Property(Codes("price_point"), JsonString(Codes("premium"))),
       Property(Codes("orbit_scene"), JsonString(Codes("street"))),
       Property(Codes("energy_level"), JsonString(Codes("high"))),
       Property(Codes("Visual_Mood"), JsonString(Codes("bright"))),
       Property(Codes("custom_note"), JsonString(Codes("none"))),
       Property(RawJsonKey, JsonString(TaggedLedger)),
       Property(RawJsonKey, JsonString(UntaggedLedger)),
       Property(Codes("product"),
                JsonObject(<<Property(Codes("product_type"), JsonString(Codes("chair")))>>)),
       Property(Codes("lifestyle"), JsonString(Codes("yes"))) >>

\* the properties of the pool whose numbers are in the set chosen, in pool order
DetectObject(chosen) ==
    JsonObject(SelectSeq(Array([i \in 1..Len(DetectPool) |->
                                   IF i \in chosen THEN DetectPool[i] ELSE Property(<<>>, JsonNull)]),
                         LAMBDA p : Len(p.k) > 0))

DetectInputs ==
    { DetectObject(chosen) :
        chosen \in { c \in SUBSET (1..Len(DetectPool)) :
                        Cardinality(c) <= MaxKeys /\ ~({9, 10} \subseteq c) } }

\* the variables of the other components while the detection runs
detectOthers == <<codecVars, canonVars, reportVars, ledgerVars, pathVars, repairVars, clockVars, readVars, scanVars, fallbackVars, accountVars, labelVars, execVars, embedVars, escapeVars, enhanceVars>>

InitDetect ==
    /\ pc = "start"
    /\ CodecIdle
    /\ CanonIdle
    /\ ReportIdle
    /\ LedgerIdle
    /\ PathIdle
    /\ RepairIdle
    /\ ClockIdle
    /\ ReadIdle
    /\ ScanIdle
    /\ FallbackIdle
    /\ AccountIdle
    /\ LabelIdle
    /\ ExecIdle
    /\ EmbedIdle
    /\ EscapeIdle
    /\ EnhanceIdle
    /\ detectInput \in DetectInputs
    /\ detectedSchema = <<>>

\* CreateMetadataReportTool.execute: const schemaType = this.detectSchemaType(metadata)
DetectSchema ==
    /\ pc = "start"
    /\ detectedSchema' = detectSchemaType(detectInput)
    /\ pc' = "detected"
    /\ UNCHANGED <<detectInput, detectOthers>>

NextDetect == DetectSchema

SpecDetect == InitDetect /\ [][NextDetect]_vars

(***************************************************************************)
(* Claims about the schema detection                                       *)
(***************************************************************************)
\* the schema tag of the Ledger of a metadata object, undefined when the
\* object has no Ledger or the Ledger no tag
C12_LedgerTag(meta) ==
    IF getProperty(meta, RawJsonKey).t = "string"
    THEN getProperty(getProperty(jsonParse(getProperty(meta, RawJsonKey).s).value,
                                 Codes("processing")),
                     Codes("schema_type"))
    ELSE JsonUndefined

\* no schema-variant key holds an object and no Ledger schema tag is available
C12_Scoring(meta) ==
    /\ \A name \in {Codes("lifestyle"), Codes("product"), Codes("orbit")} :
           getProperty(meta, name).t \notin {"object", "array"}
    /\ C12_LedgerTag(meta) = JsonUndefined

\* the number of patterns of a list that occur in some lower-cased key
C12_Hits(meta, patterns) ==
    Cardinality({ i \in 1..Len(patterns) :
                    \E k \in 1..Len(meta.items) :
                        includes(toLowerCase(meta.items[k].k), patterns[i]) })

\* the variant with the strictly highest count, tie when there is none
C12_Highest(l, p, o, tie) ==
    IF l > p /\ l > o THEN Codes("lifestyle")
    ELSE IF p > l /\ p > o THEN Codes("product")
    ELSE IF o > l /\ o > p THEN Codes("orbit")
    ELSE tie

\* the first variant whose prefix occurs in a lower-cased key, lifestyle
\* when none does
C12_PrefixOrder(meta) ==
    LET occurs(prefix) == \E k \in 1..Len(meta.items) :
                              includes(toLowerCase(meta.items[k].k), prefix)
    IN  IF occurs(Codes("lifestyle_")) THEN Codes("lifestyle")
        ELSE IF occurs(Codes("product_")) THEN Codes("product")
        ELSE IF occurs(Codes("orbit_")) THEN Codes("orbit")
        ELSE Codes("lifestyle")

C12_Expected(meta, tie) ==
    JsonString(C12_Highest(C12_Hits(meta, lifestylePatterns),
                           C12_Hits(meta, productPatterns),
                           C12_Hits(meta, orbitPatterns), tie))

CompactLedger ==
    Codes("{\"original_metadata\": {\"setting\": \"home\", \"count\": 2}, \"processing\": {\"schema_type\": \"lifestyle\"}}")

NestedLedger ==
    JsonObject(<< Property(OriginalMetadataKey,
                      JsonObject(<< Property(Codes("scene"),
                                        JsonObject(<< Property(Codes("setting"), JsonString(Codes("home"))),
                                                      Property(Codes("mood"), JsonString(Codes("calm"))) >>)),
                                    Property(Codes("count"), JsonNumber(2)) >>)),
                  Property(ProcessingKey,
                      JsonObject(<< Property(Codes("schema_type"), JsonString(Codes("lifestyle"))) >>)) >>)

FlatLedger ==
    JsonObject(<< Property(FlattenedFieldsKey,
                      JsonObject(<< Property(Codes("lifestyle_mood"), JsonString(Codes("calm"))),
                                    Property(Codes("lifestyle_count"), JsonNumber(2)) >>)),
                  Property(ProcessingKey,
                      JsonObject(<< Property(Codes("schema_type"), JsonString(Codes("lifestyle"))) >>)) >>)

\* the comma forms: one line, and as JSON.stringify(value, null, 2) writes them
LedgerTexts ==
    { CompactLedger, stringify(NestedLedger, 0), stringify(FlatLedger, 0),
      stringify(JsonObject(NestedLedger.items \o <<FlatLedger.items[1]>>), 0) }

\* the commas of a text that stand between two members of an object: no
\* string of the texts above holds a comma, and none of them has an array
FieldBoundaries(text) ==
    { i \in 1..Len(text) :
        /\ text[i] = Comma
        /\ runEnd(text, i + 1) <= Len(text)
        /\ text[runEnd(text, i + 1)] = 34 }

\* the white space written after the period
BoundarySpaces == { <<32>>, <<32, 32>>, <<9>>, <<10, 32, 32>>, <<10, 32, 32, 32, 32>> }

\* the text with the boundary at position i written as a period and the
\* white space given
damagedAt(text, i, space) ==
    SubSeq(text, 1, i - 1) \o <<46>> \o space \o SubSeq(text, runEnd(text, i + 1), Len(text))

\* the packet content whose Ledger element holds a Ledger string
ledgerElement(text) ==
    rawJsonOpen(Codes("lifestyle")) \o escapeXML(text) \o rawJsonClose(Codes("lifestyle"))

\* the variables of the other components while the repair runs
repairOthers == <<codecVars, canonVars, reportVars, ledgerVars, pathVars, detectVars, clockVars, readVars, scanVars, fallbackVars, accountVars, labelVars, execVars, embedVars, escapeVars, enhanceVars>>

InitRepair ==
    /\ pc = "start"
    /\ CodecIdle
    /\ CanonIdle
    /\ ReportIdle
    /\ LedgerIdle
    /\ PathIdle
    /\ DetectIdle
    /\ ClockIdle
    /\ ReadIdle
    /\ ScanIdle
    /\ FallbackIdle
    /\ AccountIdle
    /\ LabelIdle
    /\ ExecIdle
    /\ EmbedIdle
    /\ EscapeIdle
    /\ EnhanceIdle
    /\ ledgerText \in LedgerTexts
    /\ \E i \in FieldBoundaries(ledgerText), space \in BoundarySpaces :
           damagedLedger = damagedAt(ledgerText, i, space)
    /\ parsedDamaged = <<>>
    /\ extractedDamaged = <<>>

\* extractXMPFromImage: parseXMPContent(xmpData) on a packet whose Ledger
\* element holds the damaged string
ParseDamaged ==
    /\ pc = "start"
    /\ parsedDamaged' = parseXMPContent(ledgerElement(damagedLedger))
    /\ pc' = "parsed"
    /\ UNCHANGED <<ledgerText, damagedLedger, extractedDamaged, repairOthers>>

\* the report tool: extractRawJSONFromMetadata(metadata) on metadata whose
\* Raw_JSON holds the damaged string
ExtractDamaged ==
    /\ pc = "parsed"
    /\ extractedDamaged' =
           extractRawJSONFromMetadata(
               JsonObject(<<Property(RawJsonKey, JsonString(damagedLedger))>>))
    /\ pc' = "extracted"
    /\ UNCHANGED <<ledgerText, damagedLedger, parsedDamaged, repairOthers>>

NextRepair ==
    \/ ParseDamaged
    \/ ExtractDamaged

SpecRepair == InitRepair /\ [][NextRepair]_vars

(***************************************************************************)
(* Claims about the Ledger repair                                          *)
(***************************************************************************)
\* the object the comma form decodes to
C13_Decoded == jsonParse(ledgerText).value

\* the properties of an object other than Raw_JSON
C13_Others(object) == SelectSeq(object.items, LAMBDA p : p.k # RawJsonKey)

\* parseXMPContent decoded the damaged string to the object of the comma
\* form: the Ledger it returns decodes to that object, and the other
\* properties are those of its original_metadata
C13_ParsedAsCommaForm ==
    /\ parsedDamaged.t = "object"
    /\ getProperty(parsedDamaged, RawJsonKey).t = "string"
    /\ jsonParse(getProperty(parsedDamaged, RawJsonKey).s).ok
    /\ jsonParse(getProperty(parsedDamaged, RawJsonKey).s).value = C13_Decoded
    /\ C13_Others(parsedDamaged) = sourceProperties(getProperty(C13_Decoded, OriginalMetadataKey))

\* C13 as stated: a Ledger string with a field boundary written as a period
\* followed by white space and a double quote is repaired before JSON
\* decoding in both parseXMPContent and extractRawJSONFromMetadata, and
\* decodes to the same object the comma-separated form decodes to.
C13_RepairedInBoth ==
    (pc = "extracted") =>
        /\ jsonParse(ledgerText).ok
        /\ C13_ParsedAsCommaForm
        /\ extractedDamaged = C13_Decoded

\* the part of C13 that is about parseXMPContent
C13_RepairedInParser ==
    (pc \in {"parsed", "extracted"}) => jsonParse(ledgerText).ok /\ C13_ParsedAsCommaForm

\* the part of C13 that is about extractRawJSONFromMetadata, for the
\* boundaries written as a period and one space, or as a period, a line
\* feed and two spaces
C13_RepairedInReportTool ==
    (pc = "extracted" /\ needsCleaning(damagedLedger)) => extractedDamaged = C13_Decoded

(***************************************************************************)
(* Two embeddings of one tree.  The clock shows one of the instants        *)
(* 1..MaxInstant; it never goes back, and it may go on between any two     *)
(* calls of new Date().                                                    *)
(***************************************************************************)
MaxInstant == 3

\* new Date().toISOString() at instant n
toISOString(n) ==
    Codes("2025-01-01T00:00:00.") \o <<48>> \o digitsOf(n \div 10) \o digitsOf(n % 10) \o <<90>>

\* what the six calls of one createXMPPacket can return from an instant on
ClockReadings(from) ==
    { clock \in [1..6 -> from..MaxInstant] : \A i \in 1..5 : clock[i] <= clock[i + 1] }

\* the texts of the readings
clockTexts(clock) == Array([i \in 1..6 |-> toISOString(clock[i])])

StampTrees == { treeOf(<<>>, chosen, 1) : chosen \in {{}, {1}, {2, 3}} }

\* the variables of the other components while the two embeddings run
clockOthers == <<codecVars, canonVars, reportVars, ledgerVars, pathVars, detectVars, repairVars, readVars, scanVars, fallbackVars, accountVars, labelVars, execVars, embedVars, escapeVars, enhanceVars>>

InitClock ==
    /\ pc = "start"
    /\ CodecIdle
    /\ CanonIdle
    /\ ReportIdle
    /\ LedgerIdle
    /\ PathIdle
    /\ DetectIdle
    /\ RepairIdle
    /\ ReadIdle
    /\ ScanIdle
    /\ FallbackIdle
    /\ AccountIdle
    /\ LabelIdle
    /\ ExecIdle
    /\ EmbedIdle
    /\ EscapeIdle
    /\ EnhanceIdle
    /\ stampTree \in StampTrees
    /\ stampSchema \in SchemaNames
    /\ now = 1
    /\ firstInfo = <<>>
    /\ secondInfo = <<>>

\* EmbedMetadataTool.execute: createXMPPacket(params.metadata, schema_type)
EmbedFirst ==
    /\ pc = "start"
    /\ \E clock \in ClockReadings(now) :
           /\ firstInfo' = createXMPPacketAt(stampTree, stampSchema, clockTexts(clock))
           /\ now' = clock[6]
    /\ pc' = "first"
    /\ UNCHANGED <<stampTree, stampSchema, secondInfo, clockOthers>>

\* time passes between the two calls
Tick ==
    /\ pc = "first"
    /\ now < MaxInstant
    /\ now' = now + 1
    /\ pc' = "later"
    /\ UNCHANGED <<stampTree, stampSchema, firstInfo, secondInfo, clockOthers>>

\* the same call again, with the same tree, schema variant and options
EmbedSecond ==
    /\ pc = "later"
    /\ \E clock \in ClockReadings(now) :
           /\ secondInfo' = createXMPPacketAt(stampTree, stampSchema, clockTexts(clock))
           /\ now' = clock[6]
    /\ pc' = "second"
    /\ UNCHANGED <<stampTree, stampSchema, firstInfo, clockOthers>>

NextClock ==
    \/ EmbedFirst
    \/ Tick
    \/ EmbedSecond

SpecClock == InitClock /\ [][NextClock]_vars

(***************************************************************************)
(* Claims about the two embeddings                                         *)
(***************************************************************************)
\* the texts after which the packet holds the processing timestamp: the
\* element of the processing block and the entry of the Ledger
C14_ProcessingMarkers ==
    { Codes("<processing:Processed_Timestamp>"),
      Codes("&quot;processed_timestamp&quot;: &quot;") }

\* the texts after which the packet holds the dates of the XMP core block
\* and their copies in the Ledger
C14_DateMarkers ==
    { Codes("<xmp:CreateDate>"), Codes("<xmp:MetadataDate>"),
      Codes("&quot;CreateDate&quot;: &quot;"), Codes("&quot;MetadataDate&quot;: &quot;") }

\* whether position i of a text lies in the value (of the length of an ISO
\* instant) that follows one of the markers
C14_InValue(text, i, markers) ==
    \E marker \in markers :
        \E p \in (i - Len(marker) - Len(Timestamp) + 1)..(i - Len(marker)) :
            p >= 1 /\ occursAt(text, marker, p)

\* the two packets are of the same length and differ only in the values
\* that follow the markers
C14_DifferOnlyIn(markers) ==
    /\ ~firstInfo.threw
    /\ ~secondInfo.threw
    /\ Len(firstInfo.xmp_content) = Len(secondInfo.xmp_content)
    /\ \A i \in 1..Len(firstInfo.xmp_content) :
           firstInfo.xmp_content[i] # secondInfo.xmp_content[i]
               => C14_InValue(firstInfo.xmp_content, i, markers)

keysLength(value) ==
    CASE value.t \in {"object", "array"} -> Len(value.items)
      [] value.t = "string" -> Len(value.s)
      [] OTHER -> 0

\* XMPProcessor.detectSchemaType
detectSchemaTypeOfParsed(parsedMetadata) ==
    IF /\ truthy(getProperty(parsedMetadata, Codes("lifestyle")))
       /\ keysLength(getProperty(parsedMetadata, Codes("lifestyle"))) > 0
    THEN Codes("lifestyle")
    ELSE IF /\ truthy(getProperty(parsedMetadata, Codes("product")))
            /\ keysLength(getProperty(parsedMetadata, Codes("product"))) > 0
    THEN Codes("product")
    ELSE Codes("orbit")

\* the part of extractXMPFromImage after the packet is found
parsedResult(xmpData, parsedMetadata) ==
    [xmp_found |-> TRUE, xmp_content |-> xmpData, parsed_metadata |-> parsedMetadata,
     schema_type |-> detectSchemaTypeOfParsed(parsedMetadata)]

\* the part of extractXMPFromImage after the search of the packet
resultOfSearch(found) ==
    IF found.xmp_found
    THEN parsedResult(found.xmp_content, parseXMPContent(found.xmp_content))
    ELSE [xmp_found |-> FALSE, xmp_content |-> <<>>, parsed_metadata |-> JsonUndefined,
          schema_type |-> <<>>]

\* extractXMPFromImage with all the fields of its result
extractXMPFromImageParsed(buffer) == resultOfSearch(extractXMPFromImage(buffer))

\* the image the tree is embedded into
PlainJpeg == SOI \o JfifSegment \o EOI

\* the image the embed tool stores: the image with the packet embedded,
\* the image as it was when createXMPPacket threw
processedImage(image, xmpPacketInfo) ==
    IF xmpPacketInfo.threw THEN image
    ELSE embedXMPInImage(image, xmpPacketInfo.xmp_content).value

\* the variables of the other components while the read path runs
readOthers == <<codecVars, canonVars, reportVars, ledgerVars, pathVars, detectVars, repairVars, clockVars, scanVars, fallbackVars, accountVars, labelVars, execVars, embedVars, escapeVars, enhanceVars>>

InitRead ==
    /\ pc = "start"
    /\ CodecIdle
    /\ CanonIdle
    /\ ReportIdle
    /\ LedgerIdle
    /\ PathIdle
    /\ DetectIdle
    /\ RepairIdle
    /\ ClockIdle
    /\ ScanIdle
    /\ FallbackIdle
    /\ AccountIdle
    /\ LabelIdle
    /\ ExecIdle
    /\ EmbedIdle
    /\ EscapeIdle
    /\ EnhanceIdle
    /\ readTree \in Trees
    /\ readSchema \in SchemaNames
    /\ readImage = PlainJpeg
    /\ readResult = <<>>

\* EmbedMetadataTool.execute: createXMPPacket and embedXMPInImage; the
\* processed image is stored
EmbedTree ==
    /\ pc = "start"
    /\ readImage' = processedImage(readImage, createXMPPacket(readTree, readSchema))
    /\ pc' = IF readImage' = readImage THEN "threw" ELSE "embedded"
    /\ UNCHANGED <<readTree, readSchema, readResult, readOthers>>

\* ReadMetadataTool.extractMetadata: extractXMPFromImage on the stored image
ReadImage ==
    /\ pc = "embedded"
    /\ readResult' = extractXMPFromImageParsed(readImage)
    /\ pc' = "read"
    /\ UNCHANGED <<readTree, readSchema, readImage, readOthers>>

NextRead ==
    \/ EmbedTree
    \/ ReadImage

SpecRead == InitRead /\ [][NextRead]_vars

(***************************************************************************)
(* Claims about the read path                                              *)
(***************************************************************************)
\* C15: for every tree t and schema variant S, extractXMPFromImage applied
\* to an image embedded with the packet createXMPPacket(t, S) returns
\* schema_type = S.
C15_SchemaRecovered ==
    (pc = "read") => readResult.xmp_found /\ readResult.schema_type = readSchema

\* the packet is found and parsed for every variant, and the variant orbit
\* is returned as written
C15_OrbitRecovered ==
    (pc = "read") =>
        /\ readResult.xmp_found
        /\ readResult.parsed_metadata.t = "object"
        /\ readSchema = Codes("orbit") => readResult.schema_type = readSchema

(***************************************************************************)
(* Claims about the scan of the APP1 segments                              *)
(***************************************************************************)
\* whether an APP1 marker stands at offset i of a stream
C16_App1At(buffer, i) == At(buffer, i) = 255 /\ At(buffer, i + 1) = 225

\* whether the body of the segment at offset i starts with the XMP signature
C16_SignedAt(buffer, i) ==
    \A j \in 0..(Len(xmpSignature) - 1) : At(buffer, i + 4 + j) = xmpSignature[j + 1]

\* the length the segment at offset i declares
C16_DeclaredLength(buffer, i) == (ToInt(At(buffer, i + 2)) * 256) + ToInt(At(buffer, i + 3))

\* the payload of the XMP segment at offset i
C16_Payload(buffer, i) ==
    TextDecode(Slice(buffer, i + 4 + Len(xmpSignature),
                     i + 2 + C16_DeclaredLength(buffer, i)))

\* the offsets i at which the scan meets an APP1 segment without the XMP
\* signature (the first APP1 marker of the stream) that is immediately
\* followed by an APP1 segment with the signature
C16_AdjacentAt(buffer) ==
    { i \in 0..(Len(buffer) - 31) :
        /\ C16_App1At(buffer, i)
        /\ \A k \in 0..(i - 1) : ~C16_App1At(buffer, k)
        /\ ~C16_SignedAt(buffer, i)
        /\ C16_App1At(buffer, i + 2 + C16_DeclaredLength(buffer, i))
        /\ C16_SignedAt(buffer, i + 2 + C16_DeclaredLength(buffer, i))
        /\ i + 2 + C16_DeclaredLength(buffer, i) < Len(buffer) - 30 }

\* C16: when extractXMPFromJPEG meets an APP1 marker whose body does not
\* start with the XMP signature, scanning resumes at the first byte after
\* that segment (marker offset + 2 + declared length), so an XMP APP1
\* segment that immediately follows it is found and its payload returned.
C16_AdjacentSegmentFound ==
    (pc = "extract" /\ isJPEG(imageBuffer)) =>
        \A i \in C16_AdjacentAt(imageBuffer) :
            /\ extractResult.xmp_found
            /\ extractResult.xmp_content =
                   C16_Payload(imageBuffer, i + 2 + C16_DeclaredLength(imageBuffer, i))

(***************************************************************************)
(* Claims about the length field of the embedded segment                   *)
(***************************************************************************)
\* the big-endian value of the two bytes after the marker of the segment
\* that starts at offset 2
C17_Field(stream) == (ToInt(At(stream, 4)) * 256) + ToInt(At(stream, 5))

\* C17: in the segment that embed inserts, the 2-byte big-endian length
\* field equals 2 (the length bytes) + 29 (the signature with its NUL) + the
\* UTF-8 byte length of the packet, and excludes the 2-byte marker, for
\* every packet text.
C17_LengthField ==
    (pc = "embed" /\ ~embedResult.threw) =>
        /\ C17_Field(embedResult.value) = 2 + 29 + ByteLength(xmpPacket)
        /\ C17_Field(embedResult.value) = (Len(embedResult.value) - Len(imageBuffer)) - 2

\* the same for the packets whose segment length fits 16 bits
C17_LengthFieldThatFits ==
    (pc = "embed" /\ ~embedResult.threw /\ 2 + 29 + ByteLength(xmpPacket) < LengthFieldLimit) =>
        /\ C17_Field(embedResult.value) = 2 + 29 + ByteLength(xmpPacket)
        /\ C17_Field(embedResult.value) = (Len(embedResult.value) - Len(imageBuffer)) - 2

(***************************************************************************)
(* The loop of extractXMPFromJPEG, one iteration at a time                 *)
(***************************************************************************)
\* whether the bytes at i and i + 1 are an APP1 marker
app1MarkerAt(buffer, i) == At(buffer, i) = 255 /\ At(buffer, i + 1) = 225

\* segmentLength of the segment whose marker is at i
segmentLengthAt(buffer, i) == (ToInt(At(buffer, i + 2)) * 256) + ToInt(At(buffer, i + 3))

\* isXMP of the segment whose marker is at i
isXMPAt(buffer, i) ==
    \A j \in 0..(Len(xmpSignature) - 1) : At(buffer, i + 4 + j) = xmpSignature[j + 1]

\* the text returned for the XMP segment whose marker is at i
xmpTextAt(buffer, i) ==
    TextDecode(Slice(buffer, i + 4 + Len(xmpSignature),
                     (i + 4 + Len(xmpSignature))
                         + ((segmentLengthAt(buffer, i) - Len(xmpSignature)) - 2)))

\* a variant: the skip assigns the index instead of adding to it
nextIndex_assigned(buffer, i) ==
    IF app1MarkerAt(buffer, i) THEN (segmentLengthAt(buffer, i) + 2) + 1 ELSE i + 1

\* the index after an iteration that does not return: i += segmentLength + 2
\* after a segment without the signature, and the i++ of the loop
nextIndex(buffer, i) ==
    IF app1MarkerAt(buffer, i) THEN (i + segmentLengthAt(buffer, i) + 2) + 1 ELSE i + 1

\* the streams scanned: those of the codec, and streams whose APP1 segment
\* declares a length of 0, of 8 or past the end of the stream
ScanStreams ==
    InitialImages
    \cup { SOI \o <<255, 225, 0, 0>> \o Zeros(34) \o <<255, 225, 255, 255>> \o Zeros(40),
           SOI \o <<255, 225, 255, 255>> \o Zeros(60),
           SOI \o <<255, 225, 0, 8>> \o Zeros(6) \o XmpSegment(OldPacket) \o Zeros(4) }

\* the variables of the other components while the scan runs
scanOthers == <<codecVars, canonVars, reportVars, ledgerVars, pathVars, detectVars, repairVars, clockVars, readVars, fallbackVars, accountVars, labelVars, execVars, embedVars, escapeVars, enhanceVars>>

InitScan ==
    /\ pc = "scan"
    /\ CodecIdle
    /\ CanonIdle
    /\ ReportIdle
    /\ LedgerIdle
    /\ PathIdle
    /\ DetectIdle
    /\ RepairIdle
    /\ ClockIdle
    /\ ReadIdle
    /\ FallbackIdle
    /\ AccountIdle
    /\ LabelIdle
    /\ ExecIdle
    /\ EmbedIdle
    /\ EscapeIdle
    /\ EnhanceIdle
    /\ scanBuffer \in ScanStreams
    /\ scanIndex = 0
    /\ scanResult = Null

\* one iteration of the for loop that goes on to the next
ScanOn ==
    /\ pc = "scan"
    /\ scanIndex < Len(scanBuffer) - 30
    /\ ~(app1MarkerAt(scanBuffer, scanIndex) /\ isXMPAt(scanBuffer, scanIndex))
    /\ scanIndex' = nextIndex(scanBuffer, scanIndex)
    /\ UNCHANGED <<pc, scanBuffer, scanResult, scanOthers>>

\* the iteration that finds the signature: return new TextDecoder().decode(xmpBytes)
ScanFound ==
    /\ pc = "scan"
    /\ scanIndex < Len(scanBuffer) - 30
    /\ app1MarkerAt(scanBuffer, scanIndex)
    /\ isXMPAt(scanBuffer, scanIndex)
    /\ scanResult' = NotNull(xmpTextAt(scanBuffer, scanIndex))
    /\ pc' = "returned"
    /\ UNCHANGED <<scanBuffer, scanIndex, scanOthers>>

\* the loop condition fails: return null
ScanEnd ==
    /\ pc = "scan"
    /\ ~(scanIndex < Len(scanBuffer) - 30)
    /\ scanResult' = Null
    /\ pc' = "returned"
    /\ UNCHANGED <<scanBuffer, scanIndex, scanOthers>>

NextScan ==
    \/ ScanOn
    \/ ScanFound
    \/ ScanEnd

\* the loop stands at an iteration that finds the signature
foundHere ==
    /\ pc = "scan"
    /\ scanIndex < Len(scanBuffer) - 30
    /\ app1MarkerAt(scanBuffer, scanIndex)
    /\ isXMPAt(scanBuffer, scanIndex)

\* the code runs to its end: an iteration that can be taken is taken (the
\* fairness of the returning iteration is written with its guard, which is
\* what ENABLED <<ScanFound>>_vars amounts to)
SpecScan ==
    /\ InitScan
    /\ [][NextScan]_vars
    /\ WF_vars(ScanOn)
    /\ WF_vars(ScanEnd)
    /\ ([]<>(~foundHere) \/ []<><<ScanFound>>_vars)

(***************************************************************************)
(* Claims about the termination of the scan                                *)
(***************************************************************************)
\* C18: extractXMPFromJPEG terminates on every finite byte stream, streams
\* whose APP1 segments declare length 0 or a length reaching past the end
\* of the stream included: each loop iteration strictly increases the scan
\* index, which never moves backwards; and what it returns is what the
\* function returns for the stream.
C18_Terminates ==
    /\ <>(pc = "returned")
    /\ [][scanIndex' > scanIndex]_scanIndex
    /\ [](pc = "returned" => scanResult = extractXMPFromJPEG(scanBuffer))

\* the scan has returned from a stream in which it met an APP1 segment that
\* declares length 0 and one that declares a length past the end
C18_Witness ==
    /\ pc = "returned"
    /\ \E i \in 0..(scanIndex - 1) :
           app1MarkerAt(scanBuffer, i) /\ segmentLengthAt(scanBuffer, i) = 0
    /\ scanIndex > Len(scanBuffer)

(***************************************************************************)
(* A packet whose Raw_JSON element is missing or does not decode is read   *)
(***************************************************************************)
\* the Raw_JSON element of a packet of the given schema variant
rawJsonElement(text, type) ==
    rawJsonOpen(type) \o rawJsonMatch(text, type).group \o rawJsonClose(type)

\* {"processing": {}. "original_metadata": {   (escaped as in a packet)
CutLedgerText == Codes("{&quot;processing&quot;: {}. &quot;original_metadata&quot;: {")

NotJsonText == Codes("not json")

\* what happened to the Raw_JSON element of the stored packet: the element
\* is gone, its text is cut short, or its text is no JSON at all
Damages == {"removed", "cut", "garbled"}

damagedPacket(text, type, damage) ==
    CASE damage = "removed" ->
             replaceFirst(text, rawJsonElement(text, type), <<>>)
      [] damage = "cut" ->
             replaceFirst(text, rawJsonElement(text, type),
                          rawJsonOpen(type) \o CutLedgerText \o rawJsonClose(type))
      [] damage = "garbled" ->
             replaceFirst(text, rawJsonElement(text, type),
                          rawJsonOpen(type) \o NotJsonText \o rawJsonClose(type))

\* the variables of the other components while the damaged packet is read
fallbackOthers == <<codecVars, canonVars, reportVars, pathVars, detectVars, repairVars, clockVars, readVars, scanVars, accountVars, labelVars, execVars, embedVars, escapeVars, enhanceVars>>

InitFallback ==
    /\ pc = "start"
    /\ CodecIdle
    /\ CanonIdle
    /\ ReportIdle
    /\ ToolIdle
    /\ AccountIdle
    /\ LabelIdle
    /\ ExecIdle
    /\ EmbedIdle
    /\ EscapeIdle
    /\ EnhanceIdle
    /\ tree \in Trees
    /\ packetSchema \in SchemaNames
    /\ xmpInfo = [threw |-> FALSE, xmp_content |-> <<>>]
    /\ parsed = <<>>
    /\ alteredPacket = <<>>
    /\ parsedAltered = <<>>

\* the Raw_JSON element of the stored packet is lost or damaged
DamageLedger(damage) ==
    /\ pc = "created"
    /\ brokenPacket' = damagedPacket(xmpInfo.xmp_content, packetSchema, damage)
    /\ pc' = "damaged"
    /\ UNCHANGED <<ledgerVars, brokenParsed, fallbackOthers>>

\* extractXMPFromImage: parseXMPContent(xmpData) on the damaged packet
ParseDamagedPacket ==
    /\ pc = "damaged"
    /\ brokenParsed' = parseXMPContent(brokenPacket)
    /\ pc' = "recovered"
    /\ UNCHANGED <<ledgerVars, brokenPacket, fallbackOthers>>

NextFallback ==
    \/ CreatePacket
    \/ \E damage \in Damages : DamageLedger(damage)
    \/ ParseDamagedPacket

SpecFallback == InitFallback /\ [][NextFallback]_vars

(***************************************************************************)
(* Claims about the fallback of the parser                                 *)
(***************************************************************************)
\* <namespace:fieldName> stands somewhere in the text
C19_ElementIn(text, namespace, fieldName) ==
    \E i \in 1..Len(text) :
        text[i] = 60 /\ occursAt(text, tagOpen(namespace) \o fieldName \o <<62>>, i)

\* a map namespace -> field -> string whose fields are elements of the text,
\* none of them Raw_JSON
C19_NamespaceMap(result, text) ==
    /\ result.t = "object"
    /\ \A i \in 1..Len(result.items) :
           /\ \E n \in 1..Len(namespaces) : result.items[i].k = namespaces[n]
           /\ result.items[i].v.t = "object"
           /\ \A j \in 1..Len(result.items[i].v.items) :
                  /\ result.items[i].v.items[j].k # RawJsonKey
                  /\ result.items[i].v.items[j].v.t = "string"
                  /\ C19_ElementIn(text, result.items[i].k, result.items[i].v.items[j].k)

\* C19: if the Raw_JSON element of a packet is absent or still fails JSON
\* decoding after the repair, parseXMPContent does not raise: it returns the
\* namespace -> field -> value map scraped from the lifestyle, product,
\* orbit and processing elements (the processing map holds the schema type
\* the writer stored), and no namespace map of the result holds a Raw_JSON
\* field.
C19_RecoveredLocally ==
    pc = "recovered"
        => /\ brokenParsed = scrape(brokenPacket)
           /\ C19_NamespaceMap(brokenParsed, brokenPacket)
           /\ ~C4_LedgerPath(brokenParsed)
           /\ getProperty(getProperty(brokenParsed, ProcessingPrefix), Codes("Schema_Type"))
                  = JsonString(packetSchema)

\* a packet whose Raw_JSON element is there and does not decode has been
\* read, and fields of the schema-specific block were scraped
C19_Witness ==
    /\ pc = "recovered"
    /\ rawJsonMatch(brokenPacket, packetSchema).found
    /\ hasProperty(brokenParsed, packetSchema)
    /\ Len(getProperty(brokenParsed, packetSchema).items) > 0

(***************************************************************************)
(* Claims about the order of the categories                                *)
(***************************************************************************)
\* the keys of the map that is organized
C20_Keys == { C7_OrganizedMap[i].key : i \in 1..Len(C7_OrganizedMap) }

\* a pattern of category number c of the table matches the key
C20_Matches(table, c, key) ==
    \E p \in 1..Len(table[c].fields) :
        fieldMatchesPattern(key, table[c].fields[p], schemaType)

\* the keys category number c claims: Raw_JSON is never claimed, and a key
\* goes to the first category of the table with a pattern that matches it
C20_ClaimedBy(table, c) ==
    { key \in C20_Keys \ {RawJsonKey} :
          /\ C20_Matches(table, c, key)
          /\ \A b \in 1..(c - 1) : ~C20_Matches(table, b, key) }

\* the keys no category claimed
C20_Unclaimed(table) ==
    { key \in C20_Keys : \A c \in 1..Len(table) : key \notin C20_ClaimedBy(table, c) }

\* the names of the categories of the table that claimed a key, in table order
C20_ClaimingNames(table) ==
    LET claiming == SelectSeq([c \in 1..Len(table) |-> c],
                              LAMBDA c : C20_ClaimedBy(table, c) # {})
    IN  Array([i \in 1..Len(claiming) |-> table[claiming[i]].name])

\* the names of the categories returned
C20_Names == Array([i \in 1..Len(organized.categories) |-> organized.categories[i].name])

\* the result ends with the synthetic category
C20_EndsWithAdditional ==
    Len(C20_Names) > 0 /\ C20_Names[Len(C20_Names)] = "Additional Metadata"

\* the names returned, the synthetic category at the end apart
C20_TableNames ==
    IF C20_EndsWithAdditional THEN SubSeq(C20_Names, 1, Len(C20_Names) - 1) ELSE C20_Names

\* table order, no category without fields, the synthetic category nowhere
\* but at the end
C20_Ordered(table) ==
    /\ C20_TableNames = C20_ClaimingNames(table)
    /\ \A i \in 1..Len(organized.categories) : Len(organized.categories[i].fields) > 0
    /\ \A i \in 1..Len(C20_TableNames) : C20_TableNames[i] # "Additional Metadata"

\* C20 as stated: organizeMetadataByCategories returns its categories in the
\* table order of the schema variant, omits every category that claimed no
\* field, and places the category 'Additional Metadata', present exactly
\* when some key was claimed by no category, after all table categories.
C20_TableOrder ==
    pc = "organized" =>
        /\ C20_Ordered(schemaCategoryMap(schemaType))
        /\ C20_EndsWithAdditional <=> C20_Unclaimed(schemaCategoryMap(schemaType)) # {}

\* C20, amended: the same, with 'Additional Metadata' present exactly when
\* some key other than 'Raw_JSON' was claimed by no category.
C20_TableOrderAmended ==
    pc = "organized" =>
        /\ C20_Ordered(schemaCategoryMap(schemaType))
        /\ C20_EndsWithAdditional
               <=> C20_Unclaimed(schemaCategoryMap(schemaType)) \ {RawJsonKey} # {}

\* a map with a key of a table category, the key Raw_JSON and no other key
\* has been organized: one table category and no synthetic category
C20_Witness ==
    /\ pc = "organized"
    /\ RawJsonKey \in C20_Keys
    /\ Len(organized.categories) = 1
    /\ ~C20_EndsWithAdditional

\* a table category and the synthetic category after it
C20_WitnessLast ==
    /\ pc = "organized"
    /\ Len(organized.categories) = 2
    /\ C20_EndsWithAdditional

(***************************************************************************)
(* Claims about the blocks of a packet                                     *)
(***************************************************************************)
\* where the rdf:Description blocks of a text start
C21_BlockStarts(text) ==
    SelectSeq(positionsOf(text, 60), LAMBDA i : occursAt(text, DescriptionOpen, i))

\* the namespace prefix the block that starts at i declares: what stands
\* between 'xmlns:' and '=' on its second line
C21_PrefixFrom(text, from) ==
    SubSeq(text, from, (CHOOSE j \in from..Len(text) :
                           text[j] = 61 /\ \A k \in from..(j - 1) : text[k] # 61) - 1)

C21_PrefixAt(text, i) ==
    C21_PrefixFrom(text, i + Len(DescriptionOpen) + Len(NL) + 10 + Len(XmlnsText))

\* the prefixes of the blocks of a text, in the order of the text
C21_Prefixes(text, starts) ==
    Array([b \in 1..Len(starts) |-> C21_PrefixAt(text, starts[b])])

\* where the opening tags <x:Raw_JSON> of a text start, whatever x is
C21_LedgerTags(text) ==
    SelectSeq(positionsOf(text, 60),
              LAMBDA i : /\ i < Len(text)
                         /\ text[i + 1] # 47
                         /\ \E j \in (i + 1)..Len(text) :
                                /\ occursAt(text, <<58>> \o RawJsonKey \o <<62>>, j)
                                /\ \A k \in (i + 1)..(j - 1) : text[k] \notin {58, 60, 62})

\* the fixed order, for a schema variant, with and without the IPTC block
C21_Order(type, withIptc) ==
    <<DcPrefix>> \o (IF withIptc THEN <<IptcTag>> ELSE <<>>)
    \o <<XmpPrefix, PhotoshopPrefix, type, ProcessingPrefix>>

\* the blocks stand in the fixed order, and the one Raw_JSON element of the
\* text is an element of the schema-specific block
C21_WellOrdered(text, type, starts, tags) ==
    /\ \E withIptc \in BOOLEAN : C21_Prefixes(text, starts) = C21_Order(type, withIptc)
    /\ Len(tags) = 1
    /\ occursAt(text, rawJsonOpen(type), tags[1])
    /\ starts[Len(starts) - 1] < tags[1]
    /\ tags[1] < starts[Len(starts)]

\* C21: every packet of createXMPPacket has its blocks in the fixed order
\* Dublin Core, IPTC (when present), XMP core, Photoshop, one schema-specific
\* block in the namespace of the variant asked for, the processing block;
\* the packet holds exactly one Raw_JSON element, inside the schema-specific
\* block.
C21_BlockOrder ==
    pc = "created" =>
        C21_WellOrdered(xmpInfo.xmp_content, packetSchema,
                        C21_BlockStarts(xmpInfo.xmp_content),
                        C21_LedgerTags(xmpInfo.xmp_content))

\* a packet with an IPTC block and fields in its schema-specific block
C21_Witness ==
    /\ pc = "created"
    /\ Len(C21_BlockStarts(xmpInfo.xmp_content)) = 6
    /\ Len(flattenMetadata(tree, packetSchema)) > 0

(***************************************************************************)
(* The accounting of createXMPPacket                                       *)
(***************************************************************************)
\* a variant: the fields of the Dublin Core block are counted, too
fieldCount_standardCounted(flattenedMetadata, processingInfo, includeProcessingInfo) ==
    Len(flattenedMetadata) + 1 + (IF includeProcessingInfo THEN Len(processingInfo) ELSE 0)

\* Object.keys(flattenedMetadata).length
\*     + (includeProcessingInfo ? Object.keys(processingInfo).length : 0)
fieldCount(flattenedMetadata, processingInfo, includeProcessingInfo) ==
    Len(flattenedMetadata) + (IF includeProcessingInfo THEN Len(processingInfo) ELSE 0)

\* the XMPPacketInfo of a content
packetInfoOf(xmpContent, count) ==
    [threw |-> FALSE,
     xmp_content |-> xmpContent,
     packet_size |-> ByteLength(xmpContent),
     namespace_count |-> 1,
     field_count |-> count]

\* createXMPPacket(metadata, schemaType, options), prettyPrint having no
\* effect on the text: the XMPPacketInfo, or the exception
createXMPPacketWith(data, type, options, processingInfo) ==
    IF createXMPPacketThrows(data)
    THEN [threw |-> TRUE, xmp_content |-> <<>>, packet_size |-> 0, namespace_count |-> 0,
          field_count |-> 0]
    ELSE packetInfoOf(
             IF options.includeWrappers
             THEN wrapXMPContent(generateXMPContent(flattenMetadata(data, type), type,
                                                    processingInfo, data))
             ELSE generateXMPContent(flattenMetadata(data, type), type, processingInfo, data),
             fieldCount(flattenMetadata(data, type), processingInfo,
                        options.includeProcessingInfo))

\* the trees packets are counted for
AccountTrees ==
    { treeOf(<<>>, chosen, 1) : chosen \in {{}, {1}, {3}, {2, 3}, {3, 8}, {4, 5}} }

PacketOptions == [includeWrappers : BOOLEAN, includeProcessingInfo : BOOLEAN]

\* the variables of the other components while a packet is counted
accountOthers == <<codecVars, canonVars, reportVars, pathVars, detectVars, repairVars, clockVars, readVars, scanVars, fallbackVars, labelVars, execVars, embedVars, escapeVars, enhanceVars>>

InitAccount ==
    /\ pc = "start"
    /\ CodecIdle
    /\ CanonIdle
    /\ ReportIdle
    /\ PathIdle
    /\ DetectIdle
    /\ RepairIdle
    /\ ClockIdle
    /\ ReadIdle
    /\ ScanIdle
    /\ FallbackIdle
    /\ LabelIdle
    /\ ExecIdle
    /\ EmbedIdle
    /\ EscapeIdle
    /\ EnhanceIdle
    /\ tree \in AccountTrees
    /\ packetSchema \in SchemaNames
    /\ xmpInfo = [threw |-> FALSE, xmp_content |-> <<>>]
    /\ parsed = <<>>
    /\ alteredPacket = <<>>
    /\ parsedAltered = <<>>
    /\ packetOptions \in PacketOptions
    /\ packetInfo = <<>>

\* createXMPPacket(params.metadata, schema_type, options)
CountPacket ==
    /\ pc = "start"
    /\ packetInfo' = createXMPPacketWith(tree, packetSchema, packetOptions,
                         IF packetOptions.includeProcessingInfo
                         THEN processingInfoOf(packetSchema) ELSE <<>>)
    /\ pc' = "counted"
    /\ UNCHANGED <<ledgerVars, packetOptions, accountOthers>>

NextAccount == CountPacket

SpecAccount == InitAccount /\ [][NextAccount]_vars

(***************************************************************************)
(* Claims about the accounting                                             *)
(***************************************************************************)
\* the number of opening tags <prefix:...> of a text
C22_Elements(text, prefix) ==
    Len(SelectSeq(positionsOf(text, 60), LAMBDA i : occursAt(text, tagOpen(prefix), i)))

\* the packet size is the UTF-8 length of the text returned, which is the
\* wrapped text when wrapping is asked for
C22_Size ==
    /\ packetInfo.packet_size = Len(TextEncode(packetInfo.xmp_content))
    /\ packetOptions.includeWrappers
           <=> startsWith(packetInfo.xmp_content, PacketBegin)

\* C22 as stated: packet_size is the UTF-8 byte length of the returned
\* xmp_content (after wrapping when wrapping is applied), and field_count is
\* the number of elements of the schema-specific block plus the number of
\* elements of the processing block; elements of the standard blocks are not
\* counted.
C22_Accounting ==
    pc = "counted" =>
        /\ C22_Size
        /\ packetInfo.field_count
               = C22_Elements(packetInfo.xmp_content, packetSchema)
                     + C22_Elements(packetInfo.xmp_content, ProcessingPrefix)

\* C22, amended: the same, with field_count the number of elements of the
\* schema-specific block other than the Raw_JSON element plus the number of
\* elements of the processing block.
C22_AccountingAmended ==
    pc = "counted" =>
        /\ C22_Size
        /\ packetInfo.field_count
               = (C22_Elements(packetInfo.xmp_content, packetSchema) - 1)
                     + C22_Elements(packetInfo.xmp_content, ProcessingPrefix)

\* a wrapped packet with fields in its schema-specific block and a
\* processing block has been counted
C22_Witness ==
    /\ pc = "counted"
    /\ packetOptions.includeWrappers
    /\ packetOptions.includeProcessingInfo
    /\ C22_Elements(packetInfo.xmp_content, packetSchema) > 2
    /\ packetInfo.packet_size > Len(packetInfo.xmp_content)

(***************************************************************************)
(* The canonicalizer of the report tool                                    *)
(***************************************************************************)
\* specialCases of CreateMetadataReportTool.beautifyFieldName
specialCases ==
    << Property(Codes("food_beverage"), Codes("food_and_beverage")),
       Property(Codes("and_beverage"), Codes("food_and_beverage")),
       Property(Codes("beverage"), Codes("food_and_beverage")) >>

\* names every object literal inherits from Object.prototype: specialCases[name]
\* is a function or an object for them, which is truthy and has no split
inheritedNames ==
    { Codes("constructor"), Codes("toString"), Codes("valueOf"), Codes("hasOwnProperty"),
      Codes("isPrototypeOf"), Codes("propertyIsEnumerable"), Codes("toLocaleString"),
      Codes("__proto__"), Codes("__defineGetter__"), Codes("__defineSetter__"),
      Codes("__lookupGetter__"), Codes("__lookupSetter__") }

\* if (specialCases[cleanKey]) cleanKey = specialCases[cleanKey]
specialCaseOf(cleanKey) ==
    IF \E i \in 1..Len(specialCases) : specialCases[i].k = cleanKey
    THEN (CHOOSE p \in { specialCases[i] : i \in 1..Len(specialCases) } : p.k = cleanKey).v
    ELSE cleanKey

\* the name that follows from the clean key, as in XMPProcessor.beautifyFieldName
reportNameOf(cleanKey) ==
    LET parts == split(cleanKey, Underscore)
        isWholeCompoundTerm ==
            \E i \in 1..Len(wholeTermPatterns) :
                endsWith(cleanKey, wholeTermPatterns[i]) \/ cleanKey = wholeTermPatterns[i]
        processedName ==
            IF isWholeCompoundTerm THEN cleanKey
            ELSE IF Len(parts) = 2 THEN join(parts, <<Underscore>>)
            ELSE join(lastTwo(parts), <<Underscore>>)
    IN  IF Len(parts) <= 1 THEN toTitleCase(cleanKey) ELSE toTitleCase(processedName)

\* a variant: the report tool without its special cases
reportBeautifyFieldName_plain(key) ==
    [threw |-> FALSE, text |-> beautifyFieldName(key)]

\* CreateMetadataReportTool.beautifyFieldName: the display name, or the
\* TypeError of cleanKey.split on a value that is no string
reportBeautifyFieldName(key) ==
    IF removeSectionPrefix(removeSchemaPrefix(key)) \in inheritedNames
    THEN [threw |-> TRUE, text |-> <<>>]
    ELSE [threw |-> FALSE,
          text |-> reportNameOf(specialCaseOf(removeSectionPrefix(removeSchemaPrefix(key))))]

\* the keys labelled: those handed to the canonicalizer, the keys of the
\* food and beverage field of the lifestyle schema, and a key of a tree that
\* is the name of an inherited property
LabelKeys ==
    FieldKeys
    \cup { Codes("lifestyle_key_objects_food_beverage"), Codes("key_objects_food_beverage"),
           Codes("lifestyle_key_objects_food_and_beverage"), Codes("food_beverage"),
           Codes("beverage"), Codes("lifestyle_and_beverage"),
           Codes("lifestyle_constructor") }

\* the variables of the other components while a key is labelled
labelOthers == <<codecVars, canonVars, reportVars, ledgerVars, pathVars, detectVars, repairVars, clockVars, readVars, scanVars, fallbackVars, accountVars, execVars, embedVars, escapeVars, enhanceVars>>

InitLabel ==
    /\ pc = "start"
    /\ CodecIdle
    /\ CanonIdle
    /\ ReportIdle
    /\ LedgerIdle
    /\ PathIdle
    /\ DetectIdle
    /\ RepairIdle
    /\ ClockIdle
    /\ ReadIdle
    /\ ScanIdle
    /\ FallbackIdle
    /\ AccountIdle
    /\ ExecIdle
    /\ EmbedIdle
    /\ EscapeIdle
    /\ EnhanceIdle
    /\ labelKey \in LabelKeys
    /\ packetLabel = <<>>
    /\ reportLabel = [threw |-> FALSE, text |-> <<>>]

\* generateCustomORBITBlock: const beautifiedName = this.beautifyFieldName(key)
LabelInPacket ==
    /\ pc = "start"
    /\ packetLabel' = beautifyFieldName(labelKey)
    /\ pc' = "embedded"
    /\ UNCHANGED <<labelKey, reportLabel, labelOthers>>

\* formatDetailedReport: const beautifiedName = this.beautifyFieldName(key)
LabelInReport ==
    /\ pc = "embedded"
    /\ reportLabel' = reportBeautifyFieldName(labelKey)
    /\ pc' = "reported"
    /\ UNCHANGED <<labelKey, packetLabel, labelOthers>>

NextLabel == LabelInPacket \/ LabelInReport

SpecLabel == InitLabel /\ [][NextLabel]_vars

(***************************************************************************)
(* Claims about the two canonicalizers                                     *)
(***************************************************************************)
\* C23: the two canonicalizers agree: the report tool's beautifyFieldName
\* returns the display name XMPProcessor.beautifyFieldName returns, for every
\* key, so a field has the same label in the packet and in the report.
C23_Agree ==
    pc = "reported" => ~reportLabel.threw /\ reportLabel.text = packetLabel

\* the clean key of the key labelled
C23_CleanKey == removeSectionPrefix(removeSchemaPrefix(labelKey))

\* the two agree on every key whose clean key is no special case of the
\* report tool and no name of an inherited property
C23_AgreeOnOtherKeys ==
    (/\ pc = "reported"
     /\ C23_CleanKey \notin inheritedNames
     /\ \A i \in 1..Len(specialCases) : specialCases[i].k # C23_CleanKey)
        => ~reportLabel.threw /\ reportLabel.text = packetLabel

(***************************************************************************)
(* CreateMetadataReportTool.execute, step by step: each await and each     *)
(* return is a step, the storage answers as it likes                       *)
(***************************************************************************)
ImagePathKey == Codes("image_path")

FormatKey == Codes("format")

OutputPathKey == Codes("output_path")

reportFormats == <<Codes("detailed"), Codes("simple"), Codes("json-only")>>

validExtensions == <<Codes(".jpg"), Codes(".jpeg"), Codes(".png"), Codes(".tiff")>>

\* an optional flag is there and is no boolean
notBooleanIfProvided(value) == value.t \notin {"undefined", "boolean"}

\* validateInput ends in a TypeError: params is undefined, or image_path is
\* truthy and has no toLowerCase
validateInputThrows(params) ==
    \/ params.t = "undefined"
    \/ /\ truthy(getProperty(params, ImagePathKey))
       /\ getProperty(params, ImagePathKey).t # "string"

\* the number of errors validateInput collects
validateInputErrors(params) ==
    (IF \/ ~truthy(getProperty(params, ImagePathKey))
        \/ getProperty(params, ImagePathKey).t # "string" THEN 1 ELSE 0)
    + (IF \/ ~truthy(getProperty(params, FormatKey))
          \/ ~\E f \in 1..Len(reportFormats) :
                 getProperty(params, FormatKey) = JsonString(reportFormats[f]) THEN 1 ELSE 0)
    + (IF /\ truthy(getProperty(params, OutputPathKey))
          /\ getProperty(params, OutputPathKey).t # "string" THEN 1 ELSE 0)
    + (IF notBooleanIfProvided(getProperty(params, Codes("include_processing_info")))
       THEN 1 ELSE 0)
    + (IF notBooleanIfProvided(getProperty(params, Codes("include_raw_json"))) THEN 1 ELSE 0)
    + (IF /\ truthy(getProperty(params, ImagePathKey))
          /\ ~\E e \in 1..Len(validExtensions) :
                 endsWith(toLowerCase(getProperty(params, ImagePathKey).s), validExtensions[e])
       THEN 1 ELSE 0)

\* filename.replace(/\.[^/.]+$/, '')
withoutExtension(filename) ==
    IF lastIndexOf(filename, Dot) > 0 /\ lastIndexOf(filename, Dot) < Len(filename)
    THEN SubSeq(filename, 1, lastIndexOf(filename, Dot) - 1)
    ELSE filename

\* the name and the directory of generateDefaultOutputPath
defaultOutputPathOf(filename, directory, suffix) ==
    IF Len(directory) > 0
    THEN directory \o <<47>> \o withoutExtension(filename) \o Codes("_metadata") \o suffix
    ELSE withoutExtension(filename) \o Codes("_metadata") \o suffix

generateDefaultOutputPath(imagePath, format) ==
    LET pathParts == split(imagePath, 47)
    IN  defaultOutputPathOf(
            IF Len(pathParts[Len(pathParts)]) > 0 THEN pathParts[Len(pathParts)]
            ELSE Codes("metadata"),
            join(SubSeq(pathParts, 1, Len(pathParts) - 1), <<47>>),
            IF format = Codes("json-only") THEN Codes(".json") ELSE Codes(".txt"))

\* params.output_path || this.generateDefaultOutputPath(params.image_path, params.format)
outputPathOf(params) ==
    IF truthy(getProperty(params, OutputPathKey)) THEN getProperty(params, OutputPathKey).s
    ELSE generateDefaultOutputPath(getProperty(params, ImagePathKey).s,
                                   getProperty(params, FormatKey).s)

Pending == [state |-> "pending", success |-> FALSE]

\* a response with success: false
Failed == [state |-> "resolved", success |-> FALSE]

Succeeded == [state |-> "resolved", success |-> TRUE]

Rejected == [state |-> "rejected", success |-> FALSE]

\* a variant: the catch block answers for every request
caught_guarded(params) == Failed

\* the catch block: its response reads params.format, which throws when
\* params is undefined, and then the promise rejects
caught(params) == IF params.t = "undefined" THEN Rejected ELSE Failed

\* a request with the given image path, format and output path
Request(imagePath, format, output) ==
    JsonObject(<<Property(ImagePathKey, imagePath), Property(FormatKey, format),
                 Property(OutputPathKey, output)>>)

\* the requests: the tool called without arguments, called with arguments of
\* the wrong kind, and called as documented
ReportRequests ==
    { JsonUndefined,
      JsonObject(<<>>),
      Request(JsonNumber(5), JsonString(Codes("detailed")), JsonUndefined),
      Request(JsonString(Codes("photos/a.txt")), JsonString(Codes("detailed")), JsonUndefined),
      Request(JsonString(Codes("photos/a.jpg")), JsonString(Codes("pdf")), JsonUndefined),
      Request(JsonString(Codes("photos/a.jpg")), JsonString(Codes("detailed")), JsonNumber(7)),
      Request(JsonString(Codes("photos/a.jpg")), JsonString(Codes("detailed")), JsonUndefined),
      Request(JsonString(Codes("a.PNG")), JsonString(Codes("json-only")), JsonUndefined),
      Request(JsonString(Codes("a.b/c.jpeg")), JsonString(Codes("simple")), JsonUndefined),
      Request(JsonString(Codes("shots/.tiff")), JsonString(Codes("detailed")), JsonNull),
      Request(JsonString(Codes("photos/a.jpg")), JsonString(Codes("json-only")),
              JsonString(Codes("reports/a.json"))),
      Request(JsonString(Codes("photos/a.jpg")), JsonString(Codes("simple")),
              JsonString(Codes("photos/a.jpg"))) }

\* this.schemaCategoryMap[schemaType] is a function or Object.prototype for a
\* schema type that names an inherited property, and the for ... of over it
\* ends in a TypeError
organizeThrows(type) == type.t = "string" /\ type.s \in inheritedNames

\* whether the report of the format is made with organizeMetadataByCategories
formatOrganizes(params) == getProperty(params, FormatKey) # JsonString(Codes("json-only"))

\* a Ledger another writer made, with a schema type of its own
ForeignLedger ==
    Codes("{\"original_metadata\":{\"note\":\"x\"},\"processing\":{\"schema_type\":\"constructor\"}}")

ForeignPacket ==
    wrapXMPContent(elementLine(Codes("lifestyle"), RawJsonKey, escapeXML(ForeignLedger)))

\* what a download returns: no JPEG, a JPEG without packet, a JPEG with a
\* packet that holds no field, a JPEG the embed tool wrote, a JPEG with the
\* packet of another writer
DownloadedImages ==
    { PngSignature \o Zeros(40),
      PlainJpeg,
      SOI \o XmpSegment(OldPacket) \o EOI,
      processedImage(PlainJpeg, createXMPPacket(treeOf(<<>>, {1}, 1), Codes("lifestyle"))),
      processedImage(PlainJpeg, createXMPPacket(treeOf(<<>>, {3, 8}, 1), Codes("product"))),
      SOI \o XmpSegment(ForeignPacket) \o EOI }

\* the variables of the other components while the report tool runs
executeOthers == <<codecVars, canonVars, reportVars, ledgerVars, pathVars, detectVars, repairVars, clockVars, readVars, scanVars, fallbackVars, accountVars, labelVars, embedVars, escapeVars, enhanceVars>>

InitExecute ==
    /\ pc = "start"
    /\ CodecIdle
    /\ CanonIdle
    /\ ReportIdle
    /\ LedgerIdle
    /\ PathIdle
    /\ DetectIdle
    /\ RepairIdle
    /\ ClockIdle
    /\ ReadIdle
    /\ ScanIdle
    /\ FallbackIdle
    /\ AccountIdle
    /\ LabelIdle
    /\ EmbedIdle
    /\ EscapeIdle
    /\ EnhanceIdle
    /\ reportParams \in ReportRequests
    /\ existsResult = FALSE
    /\ downloaded = <<>>
    /\ xmpResult = <<>>
    /\ outputPath = <<>>
    /\ uploadCalls = 0
    /\ stored = {}
    /\ response = Pending

\* the promise settles with the given response
settle(r) ==
    /\ response' = r
    /\ pc' = "settled"

\* const validationResult = this.validateInput(params); if (!validationResult.valid) return
ValidateRequest ==
    /\ pc = "start"
    /\ IF validateInputThrows(reportParams) THEN settle(caught(reportParams))
       ELSE IF validateInputErrors(reportParams) > 0 THEN settle(Failed)
       ELSE pc' = "validated" /\ UNCHANGED response
    /\ UNCHANGED <<reportParams, existsResult, downloaded, xmpResult, outputPath, uploadCalls, stored, executeOthers>>

\* await this.supabaseClient.imageExists(params.image_path), which never throws
CheckImageExists ==
    /\ pc = "validated"
    /\ \E imageExists \in BOOLEAN :
           /\ existsResult' = imageExists
           /\ IF imageExists THEN pc' = "exists" /\ UNCHANGED response ELSE settle(Failed)
    /\ UNCHANGED <<reportParams, downloaded, xmpResult, outputPath, uploadCalls, stored, executeOthers>>

\* await this.supabaseClient.downloadImageToBuffer(params.image_path)
DownloadImage ==
    /\ pc = "exists"
    /\ \/ \E imageBytes \in DownloadedImages :
              /\ downloaded' = imageBytes
              /\ pc' = "downloaded"
              /\ UNCHANGED response
       \/ /\ settle(caught(reportParams))
          /\ UNCHANGED downloaded
    /\ UNCHANGED <<reportParams, existsResult, xmpResult, outputPath, uploadCalls, stored, executeOthers>>

\* extractXMPFromImage and the two checks of its result
ExtractForReport ==
    /\ pc = "downloaded"
    /\ xmpResult' = extractXMPFromImageParsed(downloaded)
    /\ IF ~xmpResult'.xmp_found \/ ~truthy(xmpResult'.parsed_metadata) THEN settle(Failed)
       ELSE IF keysLength(xmpResult'.parsed_metadata) = 0 THEN settle(Failed)
       ELSE pc' = "extracted" /\ UNCHANGED response
    /\ UNCHANGED <<reportParams, existsResult, downloaded, outputPath, uploadCalls, stored, executeOthers>>

\* enhanceMetadataWithAllFields, detectSchemaType, generateReportContent and
\* the output path: the text of the report is left open, the step returns
\* unless the report is organized for a schema type that makes
\* organizeMetadataByCategories throw, or it ends in another exception
GenerateReport ==
    /\ pc = "extracted"
    /\ \/ /\ ~(/\ formatOrganizes(reportParams)
                /\ organizeThrows(detectSchemaType(xmpResult.parsed_metadata)))
          /\ outputPath' = outputPathOf(reportParams)
          /\ pc' = "generated"
          /\ UNCHANGED response
       \/ /\ settle(caught(reportParams))
          /\ UNCHANGED outputPath
    /\ UNCHANGED <<reportParams, existsResult, downloaded, xmpResult, uploadCalls, stored, executeOthers>>

\* await this.supabaseClient.uploadImageFromBuffer(outputPath, reportBuffer,
\* 'text/plain', true), then organizeMetadataByCategories for the field count
\* and the return of the response
UploadReport ==
    /\ pc = "generated"
    /\ uploadCalls' = uploadCalls + 1
    /\ \/ /\ stored' = stored \cup {outputPath}
          /\ IF organizeThrows(detectSchemaType(xmpResult.parsed_metadata))
             THEN settle(caught(reportParams))
             ELSE settle(Succeeded)
       \/ /\ settle(caught(reportParams))
          /\ UNCHANGED stored
    /\ UNCHANGED <<reportParams, existsResult, downloaded, xmpResult, outputPath, executeOthers>>

NextExecute ==
    \/ ValidateRequest
    \/ CheckImageExists
    \/ DownloadImage
    \/ ExtractForReport
    \/ GenerateReport
    \/ UploadReport

\* the function runs on: a step that can be taken is taken (the fairness of
\* the extraction and of the steps after it is written with their guards,
\* which is what ENABLED of these steps amounts to)
SpecExecute ==
    /\ InitExecute
    /\ [][NextExecute]_vars
    /\ WF_vars(ValidateRequest)
    /\ WF_vars(CheckImageExists)
    /\ WF_vars(DownloadImage)
    /\ ([]<>(pc # "downloaded") \/ []<><<ExtractForReport>>_vars)
    /\ ([]<>(pc # "extracted") \/ []<><<GenerateReport>>_vars)
    /\ ([]<>(pc # "generated") \/ []<><<UploadReport>>_vars)

(***************************************************************************)
(* Claims about the report tool's execute                                  *)
(***************************************************************************)
\* what has to have happened before the upload is called
C24_ReadyToUpload ==
    /\ ~validateInputThrows(reportParams)
    /\ validateInputErrors(reportParams) = 0
    /\ existsResult
    /\ downloaded \in DownloadedImages
    /\ xmpResult.xmp_found
    /\ keysLength(xmpResult.parsed_metadata) > 0

\* the upload is called at most once, and only when all went well before;
\* a response with success = true comes after an upload
C24_UploadDiscipline ==
    /\ [](uploadCalls <= 1)
    /\ [][uploadCalls' # uploadCalls => C24_ReadyToUpload]_vars
    /\ [](response.state = "resolved" /\ response.success
              => uploadCalls = 1 /\ stored = {outputPath})

\* a response with success = false means that nothing was uploaded
C24_FailureStoresNothing ==
    [](response.state = "resolved" /\ ~response.success => stored = {})

\* the schema type found in the image is one no object inherits
C24_OwnSchemaType ==
    xmpResult # <<>> => ~organizeThrows(detectSchemaType(xmpResult.parsed_metadata))

\* C24: execute always resolves to a response and never rejects; it calls
\* the storage upload at most once, and only after input validation passed,
\* imageExists returned true, the download succeeded and extraction returned
\* xmp_found with non-empty parsed metadata; on every other path, and when
\* the upload itself fails, the response has success = false and nothing was
\* uploaded.
C24_AlwaysResolves ==
    /\ <>(response.state = "resolved")
    /\ [](response.state # "rejected")
    /\ C24_UploadDiscipline
    /\ C24_FailureStoresNothing

\* the same for a call with arguments: whenever params is an object
C24_ResolvesWithArguments ==
    /\ (reportParams.t # "undefined") => <>(response.state = "resolved")
    /\ [](reportParams.t # "undefined" => response.state # "rejected")
    /\ C24_UploadDiscipline

\* a response with success = false means that nothing was uploaded, for an
\* image whose schema type is no inherited name
C24_FailureStoresNothingOtherwise ==
    (C24_OwnSchemaType /\ response.state = "resolved" /\ ~response.success) => stored = {}

\* the tool was called without arguments and its promise was rejected
C24_RejectedCall == reportParams.t = "undefined" /\ response.state = "rejected"

\* a response with success = false after the report was uploaded
C24_FailedAfterUpload ==
    response.state = "resolved" /\ ~response.success /\ stored # {}

\* a report was uploaded
C24_Uploaded == response = Succeeded /\ stored = {Codes("photos/a_metadata.txt")}

(***************************************************************************)
(* EmbedMetadataTool.execute: the path it reads and the path it writes     *)
(***************************************************************************)
\* validExtensions.some(ext => path.toLowerCase().endsWith(ext))
hasValidExtension(path) ==
    \E e \in 1..Len(validExtensions) : endsWith(toLowerCase(path), validExtensions[e])

\* the errors validateInput collects about the two paths of a request whose
\* metadata, schema type and quality are as they should be
pathErrors(sourcePath, requestedPath) ==
    (IF Len(sourcePath) = 0 THEN 1 ELSE 0)
    + (IF Len(requestedPath) = 0 THEN 1 ELSE 0)
    + (IF Len(sourcePath) > 0 /\ sourcePath = requestedPath THEN 1 ELSE 0)
    + (IF Len(sourcePath) > 0 /\ ~hasValidExtension(sourcePath) THEN 1 ELSE 0)
    + (IF Len(requestedPath) > 0 /\ ~hasValidExtension(requestedPath) THEN 1 ELSE 0)

\* the path execute uploads to
uploadPath(sourcePath, requestedPath, isConverted) ==
    updateOutputPath(requestedPath, isConverted)

\* the paths of the requests
EmbedPaths ==
    { <<>>, Codes("a"), Codes("a.jpg"), Codes("a_me.jpg"), Codes("a.png"), Codes("a_me.png"),
      Codes("p/a.JPG"), Codes("p/a_me.JPG"), Codes("p/a_me.tiff"), Codes("p/a.gif") }

\* the variables of the other components while the embed tool runs
embedOthers == <<codecVars, canonVars, reportVars, ledgerVars, pathVars, detectVars, repairVars, clockVars, readVars, scanVars, fallbackVars, accountVars, labelVars, execVars, escapeVars, enhanceVars>>

InitEmbed ==
    /\ pc = "start"
    /\ CodecIdle
    /\ CanonIdle
    /\ ReportIdle
    /\ LedgerIdle
    /\ PathIdle
    /\ DetectIdle
    /\ RepairIdle
    /\ ClockIdle
    /\ ReadIdle
    /\ ScanIdle
    /\ FallbackIdle
    /\ AccountIdle
    /\ LabelIdle
    /\ ExecIdle
    /\ EscapeIdle
    /\ EnhanceIdle
    /\ embedSource \in EmbedPaths
    /\ embedOutput \in EmbedPaths
    /\ embedConverted = FALSE
    /\ uploadedTo = {}

\* const validationResult = this.validateInput(params); if (!validationResult.valid) return
ValidateEmbedRequest ==
    /\ pc = "start"
    /\ pc' = IF pathErrors(embedSource, embedOutput) > 0 THEN "refused" ELSE "validated"
    /\ UNCHANGED <<embedSource, embedOutput, embedConverted, uploadedTo, embedOthers>>

\* validateMetadata, imageExists, downloadImageToBuffer, processBuffer and
\* validateImageBuffer: the source is read, and converted or not; or execute
\* returns a failure
ConvertSource ==
    /\ pc = "validated"
    /\ \/ \E isConverted \in BOOLEAN :
              /\ embedConverted' = isConverted
              /\ pc' = "converted"
       \/ /\ pc' = "failed"
          /\ UNCHANGED embedConverted
    /\ UNCHANGED <<embedSource, embedOutput, uploadedTo, embedOthers>>

\* uploadImageFromBuffer(finalOutputPath, processedImageBuffer, 'image/jpeg', true)
UploadEmbedded ==
    /\ pc = "converted"
    /\ uploadedTo' = uploadedTo \cup {uploadPath(embedSource, embedOutput, embedConverted)}
    /\ pc' = "uploaded"
    /\ UNCHANGED <<embedSource, embedOutput, embedConverted, embedOthers>>

NextEmbed ==
    \/ ValidateEmbedRequest
    \/ ConvertSource
    \/ UploadEmbedded

SpecEmbed == InitEmbed /\ [][NextEmbed]_vars

(***************************************************************************)
(* Claims about the embed tool's paths                                     *)
(***************************************************************************)
\* C25: EmbedMetadataTool.execute never overwrites its source image: for
\* every request that passes input validation, the path uploaded to with
\* upsert differs from source_path.
C25_NeverOverwritesSource == embedSource \notin uploadedTo

\* the file name of the source ends in _me before its extension
C25_SourceIsEnhanced ==
    \E e \in {3, 4, 5} :
        /\ Len(embedSource) >= e + 3
        /\ SubSeq(embedSource, Len(embedSource) - e - 2, Len(embedSource) - e) = Codes("_me")
        /\ embedSource[Len(embedSource) - e + 1] = Dot

\* the source is overwritten only when it is itself an enhanced image
C25_OverwritesOnlyEnhanced == embedSource \in uploadedTo => C25_SourceIsEnhanced

(***************************************************************************)
(* XML escaping of a value and its way back                                *)
(***************************************************************************)
\* the strings are made of at most MaxPieces pieces
MaxPieces == 2

\* the special characters, a letter, the entities and parts of entities
TextPieces ==
    { <<38>>, <<60>>, <<62>>, <<34>>, <<39>>, Codes("a"), LtEntity, AmpEntity, QuotEntity,
      Codes("lt;"), Codes("amp;") }

RECURSIVE PieceStrings(_)
PieceStrings(n) ==
    IF n = 0 THEN { <<>> }
    ELSE { head \o piece : head \in PieceStrings(n - 1), piece \in TextPieces }

PlainTexts == UNION { PieceStrings(n) : n \in 0..MaxPieces }

\* the variables of the other components while a value is escaped
escapeOthers == <<codecVars, canonVars, reportVars, ledgerVars, pathVars, detectVars, repairVars, clockVars, readVars, scanVars, fallbackVars, accountVars, labelVars, execVars, embedVars, enhanceVars>>

InitEscape ==
    /\ pc = "start"
    /\ CodecIdle
    /\ CanonIdle
    /\ ReportIdle
    /\ LedgerIdle
    /\ PathIdle
    /\ DetectIdle
    /\ RepairIdle
    /\ ClockIdle
    /\ ReadIdle
    /\ ScanIdle
    /\ FallbackIdle
    /\ AccountIdle
    /\ LabelIdle
    /\ ExecIdle
    /\ EmbedIdle
    /\ EnhanceIdle
    /\ plainText \in PlainTexts
    /\ escapedText = <<>>
    /\ restoredText = <<>>

\* the serializer writes a value: this.escapeXML(value)
EscapeValue ==
    /\ pc = "start"
    /\ escapedText' = escapeXML(plainText)
    /\ pc' = "escaped"
    /\ UNCHANGED <<plainText, restoredText, escapeOthers>>

\* the parser reads it: this.unescapeXML(...)
UnescapeValue ==
    /\ pc = "escaped"
    /\ restoredText' = unescapeXML(escapedText)
    /\ pc' = "restored"
    /\ UNCHANGED <<plainText, escapedText, escapeOthers>>

NextEscape ==
    \/ EscapeValue
    \/ UnescapeValue

SpecEscape == InitEscape /\ [][NextEscape]_vars

(***************************************************************************)
(* Claims about XML escaping                                               *)
(***************************************************************************)
\* C26: XML escaping is invertible: unescapeXML(escapeXML(s)) = s for every
\* string s, including strings that already contain entity-like text such
\* as '&lt;', '&quot;' or '&amp;'.
C26_Invertible == pc = "restored" => restoredText = plainText

\* the string has an ampersand in it
C26_HasAmpersand == \E i \in 1..Len(plainText) : plainText[i] = 38

\* escaping is invertible on the strings without an ampersand
C26_InvertibleWithoutAmpersand ==
    pc = "restored" /\ ~C26_HasAmpersand => restoredText = plainText

(***************************************************************************)
(* Claims about the repair and the Ledgers the serializer writes           *)
(***************************************************************************)
\* the JSON text the serializer writes for the tree
C27_LedgerText ==
    stringify(generateCompleteRawJSON(flattenMetadata(tree, packetSchema), packetSchema, tree), 0)

\* the packet of the tree was written
C27_Written == pc # "start" /\ ~xmpInfo.threw

\* C27: the period-to-comma repair is the identity on well-formed Ledgers:
\* for every tree, applying the repair substitution to the JSON text the
\* serializer wrote for it leaves that text unchanged, in the parser and in
\* the report tool.
C27_RepairIsIdentity ==
    C27_Written =>
        /\ repairSeparators(C27_LedgerText) = C27_LedgerText
        /\ cleanedJsonString(C27_LedgerText) = C27_LedgerText

\* a string value of the tree ends in a period and white space
C27_EndsInPeriodAndSpace(value) ==
    /\ value.t = "string"
    /\ Len(value.s) >= 2
    /\ value.s[Len(value.s) - 1] = 46
    /\ isWhiteSpace(value.s[Len(value.s)])

\* a leaf of the tree, at the top or in a section, ends in a period and
\* white space
C27_HasPeriodLeaf ==
    \E i \in 1..Len(tree.items) :
        \/ C27_EndsInPeriodAndSpace(tree.items[i].v)
        \/ /\ tree.items[i].v.t = "object"
           /\ \E j \in 1..Len(tree.items[i].v.items) :
                  C27_EndsInPeriodAndSpace(tree.items[i].v.items[j].v)

\* the repair is the identity on the Ledger of every tree without such a leaf
C27_RepairIsIdentityOtherwise ==
    C27_Written /\ ~C27_HasPeriodLeaf =>
        /\ repairSeparators(C27_LedgerText) = C27_LedgerText
        /\ cleanedJsonString(C27_LedgerText) = C27_LedgerText

(***************************************************************************)
(* Claims about embedding again into an image that holds packets           *)
(***************************************************************************)
RECURSIVE C28_Segments(_)
\* the packet segments of the packets, one after the other
C28_Segments(packets) ==
    IF packets = <<>> THEN <<>>
    ELSE XmpSegment(packets[1]) \o C28_Segments(Tail(packets))

\* after successive embeds the stream holds the segment of every embedded
\* packet, the newest first, between the first two bytes and the rest of the
\* image they were embedded into
C28_SegmentsRemain ==
    embedded # <<>> =>
        imageBuffer = Slice(originalImage, 0, 2) \o C28_Segments(embedded)
                          \o Slice(originalImage, 2, Len(originalImage))

\* extraction after two embeds or more returns the newest packet
C28_NewestReturned ==
    (pc = "extract" /\ Len(embedded) >= 2) =>
        (extractResult.xmp_found /\ extractResult.xmp_content = embedded[1])

\* C28: after any sequence of successive embeds of packets p1, ..., pn into
\* a JPEG, extraction returns pn, the most recently embedded packet; embed
\* never removes or replaces an existing packet segment, so the earlier
\* segments remain in the stream after the newest one.
C28_ReEmbedding == C28_NewestReturned /\ C28_SegmentsRemain

\* a packet that is not empty, is text the encoder and the decoder keep, and
\* fits the length field
C28_Kept(packet) ==
    /\ packet # <<>>
    /\ TextDecode(TextEncode(packet)) = packet
    /\ ByteLength(packet) + 31 < LengthFieldLimit

\* extraction after two embeds or more returns the newest packet when that
\* packet is one the codec keeps
C28_KeptNewestReturned ==
    (pc = "extract" /\ Len(embedded) >= 2 /\ C28_Kept(embedded[1])) =>
        (extractResult.xmp_found /\ extractResult.xmp_content = embedded[1])

(***************************************************************************)
(* The organizer on the keys its own tables list                           *)
(***************************************************************************)
\* the patterns of the categories of a schema type
TablePatterns(type) ==
    UNION { { schemaCategoryMap(type)[c].fields[p] :
                p \in 1..Len(schemaCategoryMap(type)[c].fields) } :
            c \in 1..Len(schemaCategoryMap(type)) }

\* a pattern as a key, bare and behind the schema prefix
TableKeys(type) ==
    TablePatterns(type) \cup { type \o <<Underscore>> \o pattern : pattern \in TablePatterns(type) }

\* a report of one field whose key is listed in a table of the schema type
InitTable ==
    /\ pc = "start"
    /\ CodecIdle
    /\ CanonIdle
    /\ LedgerIdle
    /\ ToolIdle
    /\ schemaType \in SchemaNames
    /\ \E key \in TableKeys(schemaType) : metadata = <<StringEntry(key, Codes("value"))>>
    /\ organized = [categories |-> <<>>, totalCategories |-> 0, totalFields |-> 0]

SpecTable == InitTable /\ [][NextReport]_vars

(***************************************************************************)
(* Claims about the category a listed key lands in                         *)
(***************************************************************************)
\* the key of the report's field
C29_Key == metadata[1].key

\* the key after the schema prefix is removed
C29_Stripped ==
    IF startsWith(C29_Key, schemaType \o <<Underscore>>)
    THEN substring(C29_Key, Len(schemaType) + 1)
    ELSE C29_Key

\* the categories whose table lists the key, as it is or stripped
C29_Listing ==
    { c \in 1..Len(schemaCategoryMap(schemaType)) :
        \E p \in 1..Len(schemaCategoryMap(schemaType)[c].fields) :
            schemaCategoryMap(schemaType)[c].fields[p] \in {C29_Key, C29_Stripped} }

\* the names of the categories of the result that hold the key
C29_AssignedTo ==
    { organized.categories[i].name :
        i \in { j \in 1..Len(organized.categories) :
                  \E f \in 1..Len(organized.categories[j].fields) :
                      organized.categories[j].fields[f].key = C29_Key } }

\* C29: a key that, after removing the schema prefix, is exactly equal to a
\* pattern listed in the table of category C, and to no pattern of any other
\* category, is assigned to C by organizeMetadataByCategories.
C29_OwnCategory ==
    (pc = "organized" /\ Cardinality(C29_Listing) = 1) =>
        C29_AssignedTo = { schemaCategoryMap(schemaType)[c].name : c \in C29_Listing }

\* the categories before the listing one that have a pattern matching the key
C29_EarlierMatch ==
    \E c \in 1..Len(schemaCategoryMap(schemaType)) :
        /\ \A own \in C29_Listing : c < own
        /\ \E p \in 1..Len(schemaCategoryMap(schemaType)[c].fields) :
               fieldMatchesPattern(C29_Key, schemaCategoryMap(schemaType)[c].fields[p],
                                   schemaType)

\* the key lands in its own category when no pattern of an earlier category
\* matches it, and in one category in any case
C29_OwnCategoryUnlessEarlier ==
    (pc = "organized" /\ Cardinality(C29_Listing) = 1) =>
        /\ Cardinality(C29_AssignedTo) = 1
        /\ ~C29_EarlierMatch =>
               C29_AssignedTo = { schemaCategoryMap(schemaType)[c].name : c \in C29_Listing }

(***************************************************************************)
(* The report tool's fields: enhanceMetadataWithAllFields                  *)
(***************************************************************************)
\* key.toLowerCase().replace(/^(lifestyle|product|orbit)_/, '').replace(/[^a-z0-9]/g, '')
normalizeFieldKey(key) ==
    LET lower == toLowerCase(key)
        stripped ==
            IF \E i \in 1..3 : startsWith(lower, namespacePrefixes[i] \o <<Underscore>>)
            THEN substring(lower, Len(namespacePrefixes[
                     CHOOSE i \in 1..3 :
                         startsWith(lower, namespacePrefixes[i] \o <<Underscore>>)]) + 1)
            ELSE lower
    IN  SelectSeq(stripped, LAMBDA c : (c >= 97 /\ c <= 122) \/ (c >= 48 /\ c <= 57))

\* v !== null && v !== undefined && v !== ''
isFilled(value) == value.t \notin {"null", "undefined"} /\ value # JsonString(<<>>)

\* the text of a property of an object that formatFieldValue formats
formatMember(value) ==
    IF value.t = "array" THEN joinArray(SelectSeq(value.items, isFilled), CommaSpace)
    ELSE toStringValue(value)

formatFieldValue(value) ==
    CASE value.t \in {"null", "undefined"} -> <<>>
      [] value.t = "array" -> joinArray(SelectSeq(value.items, isFilled), CommaSpace)
      [] value.t = "object" ->
             LET filled == SelectSeq(value.items, LAMBDA p : isFilled(p.v))
             IN  joinAll([i \in 1..Len(filled) |-> formatMember(filled[i].v)], CommaSpace)
      [] OTHER -> toStringValue(value)

RECURSIVE flattenNestedFrom(_, _, _, _)
\* the for loop of flattenNestedMetadata from entry n on
flattenNestedFrom(flattened, entries, n, prefix) ==
    IF n > Len(entries) THEN flattened
    ELSE LET fullKey == IF Len(prefix) > 0 THEN prefix \o <<Underscore>> \o entries[n].k
                        ELSE entries[n].k
         IN  IF entries[n].v.t = "object"
             THEN flattenNestedFrom(
                      assignProperties(flattened,
                                       flattenNestedFrom(<<>>, entries[n].v.items, 1, fullKey)),
                      entries, n + 1, prefix)
             ELSE flattenNestedFrom(setProperty(flattened, fullKey, entries[n].v),
                                    entries, n + 1, prefix)

\* Object.entries of an object of the Ledger
entriesOf(value) == IF value.t = "object" THEN value.items ELSE <<>>

flattenNestedMetadata(nestedData) == flattenNestedFrom(<<>>, entriesOf(nestedData), 1, <<>>)

RECURSIVE addDeduplicated(_, _, _, _)
\* entries.forEach: a field is added unless its normalized key was seen;
\* acc is [fields, seenFields]
addDeduplicated(acc, entries, n, keyPrefix) ==
    IF n > Len(entries) THEN acc
    ELSE IF normalizeFieldKey(keyPrefix \o entries[n].k) \in acc.seenFields
    THEN addDeduplicated(acc, entries, n + 1, keyPrefix)
    ELSE addDeduplicated(
             [fields |-> setProperty(acc.fields, keyPrefix \o entries[n].k,
                                     JsonString(formatFieldValue(entries[n].v))),
              seenFields |-> acc.seenFields \cup {normalizeFieldKey(keyPrefix \o entries[n].k)}],
             entries, n + 1, keyPrefix)

\* the original metadata of the Ledger, or else its flattened fields
addLedgerFields(acc, rawJson) ==
    IF truthy(getProperty(rawJson, OriginalMetadataKey))
    THEN addDeduplicated(acc, flattenNestedMetadata(getProperty(rawJson, OriginalMetadataKey)),
                         1, <<>>)
    ELSE IF truthy(getProperty(rawJson, FlattenedFieldsKey))
    THEN addDeduplicated(acc, entriesOf(getProperty(rawJson, FlattenedFieldsKey)), 1, <<>>)
    ELSE acc

standardSections ==
    << Codes("dublin_core"), Codes("iptc"), Codes("xmp_core"), Codes("photoshop") >>

RECURSIVE addStandardFields(_, _, _)
\* the four blocks on rawJson.standard_metadata, from block s on
addStandardFields(acc, standardMetadata, s) ==
    IF s > Len(standardSections) THEN acc
    ELSE IF truthy(getProperty(standardMetadata, standardSections[s]))
    THEN addStandardFields(
             addDeduplicated(acc, entriesOf(getProperty(standardMetadata, standardSections[s])),
                             1, standardSections[s] \o <<Underscore>>),
             standardMetadata, s + 1)
    ELSE addStandardFields(acc, standardMetadata, s + 1)

RECURSIVE addProcessingFields(_, _, _)
\* enhanced[`processing_${key}`] = this.formatFieldValue(value)
addProcessingFields(acc, entries, n) ==
    IF n > Len(entries) THEN acc
    ELSE addProcessingFields(
             [fields |-> setProperty(acc.fields, Codes("processing_") \o entries[n].k,
                                     JsonString(formatFieldValue(entries[n].v))),
              seenFields |-> acc.seenFields],
             entries, n + 1)

\* the body of if (rawJson)
addFromLedger(acc, rawJson) ==
    LET withOriginal == addLedgerFields(acc, rawJson)
        withStandard ==
            IF truthy(getProperty(rawJson, StandardMetadataKey))
            THEN addStandardFields(withOriginal, getProperty(rawJson, StandardMetadataKey), 1)
            ELSE withOriginal
    IN  IF truthy(getProperty(rawJson, ProcessingKey))
        THEN addProcessingFields(withStandard, entriesOf(getProperty(rawJson, ProcessingKey)), 1)
        ELSE withStandard

\* enhanceMetadataWithAllFields, given what extractRawJSONFromMetadata returned
enhanceWith(parsedMetadata, rawJson) ==
    addDeduplicated(
        IF truthy(rawJson) THEN addFromLedger([fields |-> <<>>, seenFields |-> {}], rawJson)
        ELSE [fields |-> <<>>, seenFields |-> {}],
        SelectSeq(parsedMetadata.items, LAMBDA p : p.k # RawJsonKey), 1, <<>>).fields

enhanceMetadataWithAllFields(parsedMetadata) ==
    enhanceWith(parsedMetadata, extractRawJSONFromMetadata(parsedMetadata))

\* the variables of the other components while the report's fields are made
enhanceOthers == <<codecVars, canonVars, reportVars, ledgerVars, pathVars, detectVars, repairVars, clockVars, readVars, scanVars, fallbackVars, accountVars, labelVars, execVars, embedVars, escapeVars>>

InitEnhance ==
    /\ pc = "start"
    /\ CodecIdle
    /\ CanonIdle
    /\ ReportIdle
    /\ LedgerIdle
    /\ PathIdle
    /\ DetectIdle
    /\ RepairIdle
    /\ ClockIdle
    /\ ReadIdle
    /\ ScanIdle
    /\ FallbackIdle
    /\ AccountIdle
    /\ LabelIdle
    /\ ExecIdle
    /\ EmbedIdle
    /\ EscapeIdle
    /\ ledgerTree \in Trees
    /\ ledgerSchema \in SchemaNames
    /\ reportParsed = <<>>
    /\ enhanced = <<>>

\* CreateMetadataReportTool.execute: extractXMPFromImage on an image that
\* holds the packet of the tree
ParseForReport ==
    /\ pc = "start"
    /\ IF createXMPPacket(ledgerTree, ledgerSchema).threw
       THEN pc' = "threw" /\ UNCHANGED reportParsed
       ELSE /\ reportParsed' =
                   parseXMPContent(createXMPPacket(ledgerTree, ledgerSchema).xmp_content)
            /\ pc' = "parsed"
    /\ UNCHANGED <<ledgerTree, ledgerSchema, enhanced, enhanceOthers>>

\* const enhancedMetadata = this.enhanceMetadataWithAllFields(parsedMetadata)
EnhanceFields ==
    /\ pc = "parsed"
    /\ enhanced' = enhanceMetadataWithAllFields(reportParsed)
    /\ pc' = "enhanced"
    /\ UNCHANGED <<ledgerTree, ledgerSchema, reportParsed, enhanceOthers>>

NextEnhance ==
    \/ ParseForReport
    \/ EnhanceFields

SpecEnhance == InitEnhance /\ [][NextEnhance]_vars

(***************************************************************************)
(* Claims about the report's fields                                        *)
(***************************************************************************)
\* the original tree of the Ledger the parsed metadata carries
C30_Original ==
    getProperty(extractRawJSONFromMetadata(reportParsed), OriginalMetadataKey)

\* the report's fields are made of parsed metadata with a decodable Ledger
C30_Enhanced == pc = "enhanced" /\ C30_Original.t = "object"

\* the leaves below a value: the value itself, or the leaves of its properties
RECURSIVE C30_LeavesOf(_, _)
C30_LeavesOf(key, value) ==
    IF value.t = "object"
    THEN UNION { C30_LeavesOf(key \o <<Underscore>> \o value.items[i].k, value.items[i].v) :
                   i \in 1..Len(value.items) }
    ELSE { key }

\* the flattened keys of the leaves of the original tree
C30_LeafKeys ==
    UNION { C30_LeavesOf(C30_Original.items[i].k, C30_Original.items[i].v) :
              i \in 1..Len(C30_Original.items) }

\* the keys of the sections of the original tree
C30_SectionKeys ==
    { C30_Original.items[i].k :
        i \in { j \in 1..Len(C30_Original.items) : C30_Original.items[j].v.t = "object" } }

\* the report fields that are no standard and no processing fields
C30_TreeFields ==
    { enhanced[i].k :
        i \in { j \in 1..Len(enhanced) :
                  /\ ~startsWith(enhanced[j].k, Codes("processing_"))
                  /\ \A s \in 1..Len(standardSections) :
                         ~startsWith(enhanced[j].k, standardSections[s] \o <<Underscore>>) } }

\* C30: for parsed metadata that carries a decodable Ledger,
\* enhanceMetadataWithAllFields yields each leaf value of the Ledger's
\* original tree under exactly one report field: under its flattened leaf
\* key, and under no other, section-level, key.
C30_Deduplicated == C30_Enhanced => C30_TreeFields = C30_LeafKeys

\* every leaf is a report field, and the only other fields of the tree are
\* its sections, once more
C30_LeavesAndSections ==
    C30_Enhanced => C30_TreeFields = C30_LeafKeys \cup C30_SectionKeys

====
